---- MODULE Spec2Model ----
(***************************************************************************)
(* Model of the provider middlewares of klejdi94/loom                      *)
(* (src/middleware/middleware.go): the circuit breaker and the rate        *)
(* limiter, each called concurrently by the goroutines in Procs.  Every    *)
(* atomic operation of a Complete call (an atomic Load/Store/Add, a mutex  *)
(* Lock/Unlock, a channel operation) is one step, so that the goroutines   *)
(* interleave exactly where the Go memory model lets them.                 *)
(***************************************************************************)
EXTENDS Integers, Naturals, Sequences, FiniteSets, TLC

\* The goroutines that call Complete on one wrapped provider.
Procs == {"g1", "g2", "g3"}
\* The goroutines used against the circuit breaker.
CBProcs == {"g1", "g2"}
NoProc == "none"

\* Bounds of the model.
MaxRequests == 11   \* calls the breaker lets start (caps c.requests)
MaxTime == 3        \* the breaker's clock stops here
MaxTimeRL == 2      \* the rate limiter's clock stops here
MaxRetriesBound == 2 \* the largest Executor.MaxRetries tried
MaxTimeEx == 4      \* the executor's clock stops here
MaxCacheCalls == 3  \* Complete calls made through the cache decorator
MaxMemOps == 4      \* Get and Set calls made on the InMemoryCache directly
MaxTimeMem == 2     \* the clock stops here when the InMemoryCache is used directly
MaxMetricCalls == 3 \* Complete calls made through the metrics decorator
MaxMws == 3         \* the most middlewares passed to middleware.Chain
MaxStepRetries == 1 \* the largest maxRetries of a chain step
MaxTimeCa == 3      \* the cache's clock stops here
MaxOutcomes == 4    \* RecordSuccess calls made on the Experiment
MaxShareCalls == 3  \* Complete calls made on the wrappers of one Middleware value
MaxNestRetries == 2 \* the largest s.maxRetries and e.MaxRetries of a step run through an executor

\* circuitBreakerProvider.state values (const block, iota).
cbClosed == 0
cbOpen == 1
cbHalfOpen == 2
\* The request count from which the failure rate is looked at.
MinRequests == 10

\* Configurations the breaker is built with: threshold as <<num, den>>.
Thresholds == {<<1, 2>>, <<1, 1>>}
Timeouts == {1, 2}

\* Configurations the rate limiter is built with: <<limit, window>>, the window
\* in clock units (milliseconds); window / limit is exact or below one unit.
RLConfigs == {<<1, 2>>, <<2, 2>>, <<2, 4>>, <<3, 2>>}

VARIABLES
    now,        \* time.Now(), in clock units
    pc,         \* per goroutine: the line of Complete it is about to run
    result,     \* per goroutine: what its last Complete returned
    called,     \* per goroutine: whether its current/last Complete invoked next.Complete
    \* circuitBreakerProvider
    threshold, timeout, state, requests, failures, openUntil, mu,
    seen,       \* per goroutine: the value its first c.state.Load() returned
    lf,         \* per goroutine: the value c.failures.Load() returned (line 294)
    \* rateLimitProvider
    limit, window,
    tokens,     \* len(r.tokens): the permits in the buffered channel
    tickPending,\* whether the time.Tick channel holds a tick not yet received
    ctx,        \* per goroutine: its call's context
    admittedAt, \* history: how many calls were given a permit at each instant
    added,      \* history: how many permits the replenishing goroutine has sent
    \* Executor.Execute (package executor)
    exMaxRetries, exBackoff,  \* e.MaxRetries, e.Backoff
    exTimeouts,   \* <<req.Timeout, e.BaseTimeout>>
    exPromptNil,  \* req.Prompt == nil
    expc,         \* the line Execute is about to run
    exnow,        \* the clock
    exctx,        \* ctx: "live", "cancelled" (by the caller) or "deadline"
    exdeadline,   \* the deadline context.WithTimeout set, or -1
    attempt, attempts, lastErr,   \* Execute's locals
    wakeAt,       \* when time.Sleep returns
    exInterrupted, \* history: the context became done during a backoff delay
    exrenders,    \* history: how often req.Prompt.Render was called
    exlog,        \* history: the outcome of every Provider.Complete call, in order
    exresult,     \* what Execute returned
    \* cacheProvider and InMemoryCache
    caCache,      \* cacheProvider.cache: "nil" or "mem" (an InMemoryCache)
    caTTL,        \* cacheProvider.ttl
    store,        \* InMemoryCache.store
    cnow,         \* the clock
    capc,         \* the line cacheProvider.Complete is about to run
    careq,        \* the request of the call in progress
    caGetAt,      \* history: when the call in progress looked the key up
    calog,        \* history: one record per finished Complete call, in order
    \* InMemoryCache used directly by concurrent goroutines
    mpc,          \* per goroutine: the line of Get it is about to run
    mkey, ment,   \* per goroutine: Get's key and the entry it read (e, ok)
    mret,         \* per goroutine: what its last Get returned, and when
    mops,         \* history: how many Get and Set calls were started
    msets,        \* history: every Set call made
    mlast,        \* history: the last store operation started
    \* metricsProvider
    metRequests, metErrors, metPromptTok, metCompleteTok,  \* the atomic counters
    mtpc,         \* per goroutine: the line of Complete it is about to run
    mtresp,       \* per goroutine: resp.Usage of the response it received
    mtCalls, mtErrs, mtSumPrompt, mtSumComplete, \* history: calls started, calls the
                  \* inner service failed, token sums of the responses it gave
    \* middleware.Chain
    chMws,        \* the mws argument
    chpc,         \* the line Chain is about to run, then the caller's position
    chI,          \* the loop index i (1-based)
    chP,          \* p: the provider built so far, its layers from the outside in
    chResult,     \* what Chain returned
    chPos,        \* how deep into the layers the Complete call has got
    chTrace,      \* history: the layers the Complete call has reached, in order
    \* Chain.Execute (package chain)
    ceNames, ceConds,  \* per step: stepDef.name, stepDef.condition
    ceOpts,       \* c.exec != nil, and the steps' maxRetries, fallback, backoff
    cepc,         \* the line Execute (or runParallel, called by it) is about to run
    ceNode,       \* the index of the node the loop at line 174 is at
    ceLaunch,     \* runParallel: the index of the step the loop at line 260 is at
    ceResult,     \* result.outputs
    ceInput,      \* currentInput
    ceSt,         \* per step: "pending", "skipped", "running", "ok" or "failed"
    ceRs,         \* per step: the state of its runStep call
    ceWg,         \* runParallel: the WaitGroup counter
    ceCh,         \* runParallel: the channel ch
    ceOut,        \* runParallel: the map out
    ceCtxDone,    \* the ctx passed to Execute is done
    ceReturned,   \* what Execute returned
    ceSaw,        \* history, per step: the input its task was last run with
    ceGroupInput, \* history: currentInput when the parallel group was entered
    ceRuns,       \* history, per step: how often its primary and fallback were run
    ceFb,         \* history, per step: how its fallback ended
    ceWrites,      \* history, per name: how often result.outputs[name] was written
    \* Experiment (package optimizer)
    opN,          \* len(e.variants)
    opMin,        \* e.minSampleSize
    opOnWinner,   \* e.onWinner != nil
    opSucc, opTot, \* e.successes, e.totals
    opFired,      \* e.winnerFired
    oppc,         \* per goroutine: the line of RecordSuccess it is about to run
    opRecs,       \* history: how many RecordSuccess calls were started
    opCalls,      \* history: how often e.onWinner was invoked
    opFireAt,      \* history: opRecs when winnerFired was set
    \* MemoryRegistry (package registry)
    rgPrompts,    \* m.prompts: per id and version, whether a prompt is stored
    rgProduction, \* m.production: per id, a version or "none" (no entry)
    rgStages,     \* m.stages: per id and version, a stage or "none" (no entry)
    rgTags,       \* m.tags: per id and version, the tags or "none" (no entry)
    rgLast,        \* history: the last call made on the registry and what it returned
    \* One Middleware value applied to several providers
    shKind,       \* the constructor that returned the Middleware value
    shNext,       \* per provider object: its next field, or "nil"
    shWrappers,   \* the objects the applications returned, in order
    shApplied,    \* the providers the value was applied to, in order
    shLog,         \* history: per Complete call, the wrapper called and the provider reached
    \* Chain.runStep calling Executor.Execute (one step of a chain)
    nsM, nsE,     \* s.maxRetries and e.MaxRetries
    nsFallback,   \* s.fallback != nil
    nsBackoff,    \* s.backoff != nil
    nsRenderOk,   \* per task: whether it renders with the step's input
    nspc,         \* the line runStep, or Execute called by it, is about to run
    nsTask,       \* req.Prompt: "primary" or "fallback"
    nsAttempt,    \* runStep's attempt
    nsExAttempt,  \* Execute's attempt
    nsLastErr,    \* runStep's lastErr
    nsCtxDone,    \* the ctx given to runStep is done
    nsRendered,   \* history, per task: how often it was rendered
    nsCompletes,  \* history, per task: how often Provider.Complete was called for it
    nsRet         \* what runStep returned

cbVars == <<threshold, timeout, state, requests, failures, openUntil, mu, seen, lf>>
rlVars == <<limit, window, tokens, tickPending, ctx, admittedAt, added>>
mwVars == <<now, pc, result, called, cbVars, rlVars>>
exVars == <<exMaxRetries, exBackoff, exTimeouts, exPromptNil, expc, exnow, exctx,
            exdeadline, attempt, attempts, lastErr, wakeAt, exInterrupted, exrenders,
            exlog, exresult>>
caVars == <<caCache, caTTL, store, cnow, capc, careq, caGetAt, calog>>
memVars == <<mpc, mkey, ment, mret, mops, msets, mlast>>
metVars == <<metRequests, metErrors, metPromptTok, metCompleteTok, mtpc, mtresp,
             mtCalls, mtErrs, mtSumPrompt, mtSumComplete>>
chVars == <<chMws, chpc, chI, chP, chResult, chPos, chTrace>>
ceVars == <<ceNames, ceConds, ceOpts, cepc, ceNode, ceLaunch, ceResult, ceInput, ceSt,
            ceRs, ceWg, ceCh, ceOut, ceCtxDone, ceReturned, ceSaw, ceGroupInput,
            ceRuns, ceFb, ceWrites>>
opVars == <<opN, opMin, opOnWinner, opSucc, opTot, opFired, oppc, opRecs, opCalls, opFireAt>>
rgVars == <<rgPrompts, rgProduction, rgStages, rgTags, rgLast>>
shVars == <<shKind, shNext, shWrappers, shApplied, shLog>>
nsVars == <<nsM, nsE, nsFallback, nsBackoff, nsRenderOk, nspc, nsTask, nsAttempt, nsExAttempt, nsLastErr, nsCtxDone, nsRendered, nsCompletes, nsRet>>
newVars == <<exVars, caVars, memVars, metVars, chVars, ceVars, opVars, rgVars, shVars, nsVars>>
vars == <<mwVars, newVars>>

\* Execute has returned nothing yet.
NoResult == [kind |-> "none", value |-> FALSE, attempts |-> 0, wraps |-> "nil"]

\* The executor's variables in the specifications that do not run it.
ExUnused ==
    /\ exMaxRetries = 0
    /\ exBackoff = "nil"
    /\ exTimeouts = <<0, 0>>
    /\ exPromptNil = FALSE
    /\ expc = "done"
    /\ exnow = 0
    /\ exctx = "live"
    /\ exdeadline = -1
    /\ attempt = 0
    /\ attempts = 0
    /\ lastErr = "nil"
    /\ wakeAt = 0
    /\ exInterrupted = FALSE
    /\ exrenders = 0
    /\ exlog = <<>>
    /\ exresult = NoResult

\* Strings are sequences of characters; NUL is the byte "\x00".
NUL == "0"
\* The (model, system, prompt) triples callers send.  The first two differ in
\* system and prompt only by where a NUL byte stands.
CaRequests ==
    { <<<<"m">>, <<>>, <<NUL, "p">>>>,
      <<<<"m">>, <<NUL>>, <<"p">>>>,
      <<<<"m">>, <<"s">>, <<"p">>>> }

\* Line 133: key := req.Model + "\x00" + req.System + "\x00" + req.Prompt
CacheKey(req) == req[1] \o <<NUL>> \o req[2] \o <<NUL>> \o req[3]

CaKeys == { CacheKey(r) : r \in CaRequests }

\* No entry in the map (ok == false at line 179).
NoEntry == [val |-> [ok |-> FALSE, json |-> 0, meta |-> "json"], expires |-> -1]

\* The cache's variables in the specifications that do not run it.
CaUnused ==
    /\ caCache = "nil"
    /\ caTTL = 1
    /\ store = [k \in CaKeys |-> NoEntry]
    /\ cnow = 0
    /\ capc = "idle"
    /\ careq = <<<<>>, <<>>, <<>>>>
    /\ caGetAt = 0
    /\ calog = <<>>

\* The goroutines that use one InMemoryCache.
MemProcs == {"g1", "g2"}

\* Get has returned nothing yet.
NoGet == [key |-> <<>>, ok |-> FALSE, val |-> NoEntry.val, at |-> 0]
\* No store operation yet.
NoOp == [op |-> "none", key |-> <<>>]

\* The direct users' variables in the specifications that have none.
MemUnused ==
    /\ mpc = [p \in MemProcs |-> "idle"]
    /\ mkey = [p \in MemProcs |-> <<>>]
    /\ ment = [p \in MemProcs |-> NoEntry]
    /\ mret = [p \in MemProcs |-> NoGet]
    /\ mops = 0
    /\ msets = {}
    /\ mlast = NoOp

\* The goroutines that call one metrics decorator.
MetProcs == {"g1", "g2"}

\* Lines 71-72: a fresh metricsProvider, all counters zero, nobody calling.
MetFresh ==
    /\ metRequests = 0
    /\ metErrors = 0
    /\ metPromptTok = 0
    /\ metCompleteTok = 0
    /\ mtpc = [p \in MetProcs |-> "idle"]
    /\ mtresp = [p \in MetProcs |-> <<0, 0>>]
    /\ mtCalls = 0
    /\ mtErrs = 0
    /\ mtSumPrompt = 0
    /\ mtSumComplete = 0

\* The provider passed to middleware.Chain: a single layer.
BaseProvider == <<"p">>

\* Chain's variables in the specifications that do not call it.
ChUnused ==
    /\ chMws = <<>>
    /\ chpc = "unused"
    /\ chI = 0
    /\ chP = BaseProvider
    /\ chResult = <<>>
    /\ chPos = 0
    /\ chTrace = <<>>

\* The chain A, Parallel(B, C), D: its steps by index, and its nodes.
CeSteps == 1..4
CeNodes == << [parallel |-> FALSE, steps |-> <<1>>],
              [parallel |-> TRUE, steps |-> <<2, 3>>],
              [parallel |-> FALSE, steps |-> <<4>>] >>
\* The node a step belongs to.
CeNodeOf(i) == CHOOSE n \in 1..Len(CeNodes) :
                  \E k \in 1..Len(CeNodes[n].steps) : CeNodes[n].steps[k] = i

\* The names steps are given.
CeNameSet == {"a", "b", "c", "d"}

\* No output under a name, and a map with no entry.
NoOut == [by |-> 0, kind |-> "none"]
CeEmptyMap == [n \in CeNameSet |-> NoOut]

\* No error.
NoErr == [annot |-> "", msg |-> "none", step |-> 0, task |-> "none", attempt |-> 0]

\* A runStep call that has not started.
CeIdle == [pc |-> "idle", attempt |-> 0, lastErr |-> NoErr, val |-> NoOut, err |-> NoErr]

\* Execute has not returned.
CeNotReturned == [kind |-> "none", result |-> CeEmptyMap, err |-> NoErr]

\* The state before Execute is entered (lines 169-173).
CeFresh ==
    /\ cepc = "x174"
    /\ ceNode = 1
    /\ ceLaunch = 1
    /\ ceResult = CeEmptyMap
    /\ ceInput = CeEmptyMap
    /\ ceSt = [i \in CeSteps |-> "pending"]
    /\ ceRs = [i \in CeSteps |-> CeIdle]
    /\ ceWg = 0
    /\ ceCh = <<>>
    /\ ceOut = CeEmptyMap
    /\ ceCtxDone = FALSE
    /\ ceReturned = CeNotReturned
    /\ ceSaw = [i \in CeSteps |-> CeEmptyMap]
    /\ ceGroupInput = CeEmptyMap
    /\ ceRuns = [i \in CeSteps |-> [primary |-> 0, fallback |-> 0]]
    /\ ceFb = [i \in CeSteps |-> "none"]
    /\ ceWrites = [n \in CeNameSet |-> 0]

\* Chain.Execute's variables in the specifications that do not run it: an
\* empty chain's Execute has nothing to do.
CeUnused ==
    /\ ceNames = <<"a", "b", "c", "d">>
    /\ ceConds = <<"nil", "nil", "nil", "nil">>
    /\ ceOpts = [exec |-> FALSE, maxRetries |-> 0, fallback |-> FALSE, backoff |-> FALSE]
    /\ cepc = "unused"
    /\ ceNode = 1
    /\ ceLaunch = 1
    /\ ceResult = CeEmptyMap
    /\ ceInput = CeEmptyMap
    /\ ceSt = [i \in CeSteps |-> "pending"]
    /\ ceRs = [i \in CeSteps |-> CeIdle]
    /\ ceWg = 0
    /\ ceCh = <<>>
    /\ ceOut = CeEmptyMap
    /\ ceCtxDone = FALSE
    /\ ceReturned = CeNotReturned
    /\ ceSaw = [i \in CeSteps |-> CeEmptyMap]
    /\ ceGroupInput = CeEmptyMap
    /\ ceRuns = [i \in CeSteps |-> [primary |-> 0, fallback |-> 0]]
    /\ ceFb = [i \in CeSteps |-> "none"]
    /\ ceWrites = [n \in CeNameSet |-> 0]

\* The goroutines that call RecordSuccess on one Experiment, and the most
\* variants it is given.
OpProcs == {"g1", "g2"}
OpVariants == 1..2

\* An Experiment on which nothing was recorded.
OpFresh ==
    /\ opSucc = [i \in OpVariants |-> 0]
    /\ opTot = [i \in OpVariants |-> 0]
    /\ opFired = FALSE
    /\ oppc = [p \in OpProcs |-> "idle"]
    /\ opRecs = 0
    /\ opCalls = 0
    /\ opFireAt = 0

\* The Experiment's variables in the specifications that do not use it.
OpUnused ==
    /\ opN = 0
    /\ opMin = 0
    /\ opOnWinner = FALSE
    /\ OpFresh

\* The ids and versions prompts are stored under.
RgIds == {"p1", "p2"}
RgVersions == {"v1", "v2"}

\* No call made on the registry yet.
RgNoCall == [op |-> "none", id |-> "", version |-> "", stage |-> "", err |-> "nil", got |-> ""]

\* NewMemoryRegistry (lines 21-28): the empty registry.  It is also the
\* registry's state in the specifications that do not use it.
NewMemoryRegistry ==
    /\ rgPrompts = [id \in RgIds |-> [v \in RgVersions |-> FALSE]]
    /\ rgProduction = [id \in RgIds |-> "none"]
    /\ rgStages = [id \in RgIds |-> [v \in RgVersions |-> "none"]]
    /\ rgTags = [id \in RgIds |-> [v \in RgVersions |-> "none"]]
    /\ rgLast = RgNoCall

\* The objects a Middleware value may return: the metricsProvider allocated by
\* Metrics(), and the loggingProviders allocated by each application of Logging's
\* closure.
ShObjects == {"m", "l1", "l2"}

\* A Middleware value that was not applied yet.  It is also the state of these
\* variables in the specifications that do not use them.
ShFresh ==
    /\ shNext = [o \in ShObjects |-> "nil"]
    /\ shWrappers = <<>>
    /\ shApplied = <<>>
    /\ shLog = <<>>

ShUnused == shKind = "Logging" /\ ShFresh

\* The tasks of a step.
NsTasks == {"primary", "fallback"}

\* runStep has not returned.
NsNotReturned == [kind |-> "none", err |-> "nil", by |-> "none"]

\* runStep is entered (lines 202-217).
NsFresh ==
    /\ nspc = "r218"
    /\ nsTask = "primary"
    /\ nsAttempt = 0
    /\ nsExAttempt = 0
    /\ nsLastErr = "nil"
    /\ nsCtxDone = FALSE
    /\ nsRendered = [t \in NsTasks |-> 0]
    /\ nsCompletes = [t \in NsTasks |-> 0]
    /\ nsRet = NsNotReturned

\* These variables in the specifications that do not use them.
NsUnused ==
    /\ nsM = 0
    /\ nsE = 0
    /\ nsFallback = FALSE
    /\ nsBackoff = FALSE
    /\ nsRenderOk = [t \in NsTasks |-> TRUE]
    /\ NsFresh

NewUnused == ExUnused /\ CaUnused /\ MemUnused /\ MetFresh /\ ChUnused /\ CeUnused /\ OpUnused /\ NewMemoryRegistry /\ ShUnused /\ NsUnused

----------------------------------------------------------------------------
\* CircuitBreaker(threshold, timeout): a fresh breaker, nobody calling.
InitCB ==
    /\ now = 0
    /\ pc = [p \in Procs |-> "idle"]
    /\ result = [p \in Procs |-> "none"]
    /\ called = [p \in Procs |-> FALSE]
    /\ threshold \in Thresholds
    /\ timeout \in Timeouts
    /\ state = cbClosed
    /\ requests = 0
    /\ failures = 0
    /\ openUntil = 0
    /\ mu = NoProc
    /\ seen = [p \in Procs |-> cbClosed]
    /\ lf = [p \in Procs |-> 0]
    /\ limit = 1
    /\ window = 1
    /\ tokens = 0
    /\ tickPending = FALSE
    /\ ctx = [p \in Procs |-> "live"]
    /\ admittedAt = [t \in 0..MaxTimeRL |-> 0]
    /\ added = 0
    /\ NewUnused

\* rate >= c.threshold, with rate = float64(f) / float64(r) and r > 0.
RateAtLeast(f, r, th) == f * th[2] >= th[1] * r

\* Mutant of BeforeOpenUntil: the comparison the wrong way round.
BeforeOpenUntilFlipped == openUntil < now

\* time.Now().Before(c.openUntil)
BeforeOpenUntil == now < openUntil

Goto(p, l) == pc' = [pc EXCEPT ![p] = l]

\* Line 276: a goroutine enters Complete and loads c.state.
CBEnter(p) ==
    /\ pc[p] = "idle"
    /\ requests < MaxRequests
    /\ seen' = [seen EXCEPT ![p] = state]
    /\ result' = [result EXCEPT ![p] = "none"]
    /\ called' = [called EXCEPT ![p] = FALSE]
    /\ Goto(p, IF state = cbOpen THEN "l277" ELSE "l285")
    /\ UNCHANGED <<now, threshold, timeout, state, requests, failures, openUntil, mu, lf>>

\* Line 277: c.mu.Lock()
CBLockOpen(p) ==
    /\ pc[p] = "l277"
    /\ mu = NoProc
    /\ mu' = p
    /\ Goto(p, "l278")
    /\ UNCHANGED <<now, result, called, threshold, timeout, state, requests, failures, openUntil, seen, lf>>

\* Line 278: if time.Now().Before(c.openUntil)
CBTimeCheck(p) ==
    /\ pc[p] = "l278"
    /\ Goto(p, IF BeforeOpenUntil THEN "l279" ELSE "l282")
    /\ UNCHANGED <<now, result, called, cbVars>>

\* Mutant of CBReject: the fast-fail is counted as a failure.
CBRejectCounted(p) ==
    /\ pc[p] = "l279"
    /\ mu' = NoProc
    /\ failures' = failures + 1
    /\ result' = [result EXCEPT ![p] = "DeadlineExceeded"]
    /\ Goto(p, "idle")
    /\ UNCHANGED <<now, called, threshold, timeout, state, requests, openUntil, seen, lf>>

\* Lines 279-280: c.mu.Unlock(); return nil, context.DeadlineExceeded
CBReject(p) ==
    /\ pc[p] = "l279"
    /\ mu' = NoProc
    /\ result' = [result EXCEPT ![p] = "DeadlineExceeded"]
    /\ Goto(p, "idle")
    /\ UNCHANGED <<now, called, threshold, timeout, state, requests, failures, openUntil, seen, lf>>

\* Line 282: c.state.Store(cbHalfOpen)
CBStoreHalfOpen(p) ==
    /\ pc[p] = "l282"
    /\ state' = cbHalfOpen
    /\ Goto(p, "l283")
    /\ UNCHANGED <<now, result, called, threshold, timeout, requests, failures, openUntil, mu, seen, lf>>

\* Line 283: c.mu.Unlock()
CBUnlockOpen(p) ==
    /\ pc[p] = "l283"
    /\ mu' = NoProc
    /\ Goto(p, "l285")
    /\ UNCHANGED <<now, result, called, threshold, timeout, state, requests, failures, openUntil, seen, lf>>

\* Line 285: c.requests.Add(1)
CBAddRequest(p) ==
    /\ pc[p] = "l285"
    /\ requests' = requests + 1
    /\ Goto(p, "l286")
    /\ UNCHANGED <<now, result, called, threshold, timeout, state, failures, openUntil, mu, seen, lf>>

\* Line 286: c.next.Complete(ctx, req) is entered.
CBInvoke(p) ==
    /\ pc[p] = "l286"
    /\ called' = [called EXCEPT ![p] = TRUE]
    /\ Goto(p, "inner")
    /\ UNCHANGED <<now, result, cbVars>>

\* Line 286: c.next.Complete returns, with an error or without.
CBInnerReturn(p) ==
    /\ pc[p] = "inner"
    /\ \E ok \in BOOLEAN : Goto(p, IF ok THEN "l303" ELSE "l288")
    /\ UNCHANGED <<now, result, called, cbVars>>

\* Line 288: c.failures.Add(1)
CBAddFailure(p) ==
    /\ pc[p] = "l288"
    /\ failures' = failures + 1
    /\ Goto(p, "l289")
    /\ UNCHANGED <<now, result, called, threshold, timeout, state, requests, openUntil, mu, seen, lf>>

\* Line 289: c.mu.Lock()
CBLockFail(p) ==
    /\ pc[p] = "l289"
    /\ mu = NoProc
    /\ mu' = p
    /\ Goto(p, "l290")
    /\ UNCHANGED <<now, result, called, threshold, timeout, state, requests, failures, openUntil, seen, lf>>

\* Line 290: if c.state.Load() == cbHalfOpen
CBFailLoadState(p) ==
    /\ pc[p] = "l290"
    /\ Goto(p, IF state = cbHalfOpen THEN "l291" ELSE "l293")
    /\ UNCHANGED <<now, result, called, cbVars>>

\* Lines 291 and 296: c.state.Store(cbOpen)
CBStoreOpen(p) ==
    /\ pc[p] \in {"l291", "l296"}
    /\ state' = cbOpen
    /\ Goto(p, IF pc[p] = "l291" THEN "l292" ELSE "l297")
    /\ UNCHANGED <<now, result, called, threshold, timeout, requests, failures, openUntil, mu, seen, lf>>

\* Lines 292 and 297: c.openUntil = time.Now().Add(c.timeout)
CBSetOpenUntil(p) ==
    /\ pc[p] \in {"l292", "l297"}
    /\ openUntil' = now + timeout
    /\ Goto(p, "l300")
    /\ UNCHANGED <<now, result, called, threshold, timeout, state, requests, failures, mu, seen, lf>>

\* Line 293: else if c.requests.Load() >= 10
CBFailLoadRequests(p) ==
    /\ pc[p] = "l293"
    /\ Goto(p, IF requests >= MinRequests THEN "l294" ELSE "l300")
    /\ UNCHANGED <<now, result, called, cbVars>>

\* Line 294, left operand: c.failures.Load()
CBLoadFailures(p) ==
    /\ pc[p] = "l294"
    /\ lf' = [lf EXCEPT ![p] = failures]
    /\ Goto(p, "l295")
    /\ UNCHANGED <<now, result, called, threshold, timeout, state, requests, failures, openUntil, mu, seen>>

\* Lines 294-295: the right operand c.requests.Load(), and if rate >= c.threshold
CBRateCheck(p) ==
    /\ pc[p] = "l295"
    /\ Goto(p, IF RateAtLeast(lf[p], requests, threshold) THEN "l296" ELSE "l300")
    /\ lf' = [lf EXCEPT ![p] = 0]
    /\ UNCHANGED <<now, result, called, threshold, timeout, state, requests, failures, openUntil, mu, seen>>

\* Lines 300-301: c.mu.Unlock(); return nil, err
CBFailReturn(p) ==
    /\ pc[p] = "l300"
    /\ mu' = NoProc
    /\ result' = [result EXCEPT ![p] = "innerErr"]
    /\ Goto(p, "idle")
    /\ UNCHANGED <<now, called, threshold, timeout, state, requests, failures, openUntil, seen, lf>>

\* Line 303: if c.state.Load() == cbHalfOpen (not under c.mu); else line 306.
CBOkLoadState(p) ==
    /\ pc[p] = "l303"
    /\ IF state = cbHalfOpen
         THEN Goto(p, "l304") /\ UNCHANGED result
         ELSE Goto(p, "idle") /\ result' = [result EXCEPT ![p] = "ok"]
    /\ UNCHANGED <<now, called, cbVars>>

\* Lines 304 and 306: c.state.Store(cbClosed); return resp, nil
CBStoreClosed(p) ==
    /\ pc[p] = "l304"
    /\ state' = cbClosed
    /\ result' = [result EXCEPT ![p] = "ok"]
    /\ Goto(p, "idle")
    /\ UNCHANGED <<now, called, threshold, timeout, requests, failures, openUntil, mu, seen, lf>>

\* The clock advances.
CBTick ==
    /\ now < MaxTime
    /\ now' = now + 1
    /\ UNCHANGED <<pc, result, called, cbVars>>

CBStep(p) ==
    \/ CBEnter(p)
    \/ CBLockOpen(p)
    \/ CBTimeCheck(p)
    \/ CBReject(p)
    \/ CBStoreHalfOpen(p)
    \/ CBUnlockOpen(p)
    \/ CBAddRequest(p)
    \/ CBInvoke(p)
    \/ CBInnerReturn(p)
    \/ CBAddFailure(p)
    \/ CBLockFail(p)
    \/ CBFailLoadState(p)
    \/ CBStoreOpen(p)
    \/ CBSetOpenUntil(p)
    \/ CBFailLoadRequests(p)
    \/ CBLoadFailures(p)
    \/ CBRateCheck(p)
    \/ CBFailReturn(p)
    \/ CBOkLoadState(p)
    \/ CBStoreClosed(p)

NextCB == (CBTick \/ \E p \in CBProcs : CBStep(p)) /\ UNCHANGED <<rlVars, newVars>>

SpecCB == InitCB /\ [][NextCB]_vars

----------------------------------------------------------------------------
\* RateLimit(limit, window)(p): the channel filled with limit permits (lines
\* 212-215), the replenishing goroutine started, nobody calling.
InitRL ==
    /\ now = 0
    /\ pc = [p \in Procs |-> "idle"]
    /\ result = [p \in Procs |-> "none"]
    /\ called = [p \in Procs |-> FALSE]
    /\ threshold = <<1, 2>>
    /\ timeout = 1
    /\ state = cbClosed
    /\ requests = 0
    /\ failures = 0
    /\ openUntil = 0
    /\ mu = NoProc
    /\ seen = [p \in Procs |-> cbClosed]
    /\ lf = [p \in Procs |-> 0]
    /\ \E c \in RLConfigs : limit = c[1] /\ window = c[2]
    /\ tokens = limit
    /\ tickPending = FALSE
    /\ ctx = [p \in Procs |-> "live"]
    /\ admittedAt = [t \in 0..MaxTimeRL |-> 0]
    /\ added = 0
    /\ NewUnused

\* Lines 217-220: tick := window / limit, at least one millisecond.
TickOf(l, w) == IF w \div l < 1 THEN 1 ELSE w \div l

\* Line 232: a goroutine enters Complete with a context that is live or
\* already cancelled, and reaches the select.
RLEnter(p) ==
    /\ pc[p] = "idle"
    /\ \E c \in {"live", "precancelled"} : ctx' = [ctx EXCEPT ![p] = c]
    /\ result' = [result EXCEPT ![p] = "none"]
    /\ called' = [called EXCEPT ![p] = FALSE]
    /\ Goto(p, "r233")
    /\ UNCHANGED <<now, limit, window, tokens, tickPending, admittedAt, added>>

\* The caller's context is cancelled (or its deadline passes) while the call
\* waits in the select.
RLCancel(p) ==
    /\ pc[p] = "r233"
    /\ ctx[p] = "live"
    /\ ctx' = [ctx EXCEPT ![p] = "cancelled"]
    /\ UNCHANGED <<now, pc, result, called, limit, window, tokens, tickPending, admittedAt, added>>

\* Mutant of RLTake: the permit is seen but not removed from the channel.
RLTakeNoRemove(p) ==
    /\ pc[p] = "r233"
    /\ tokens > 0
    /\ admittedAt' = [admittedAt EXCEPT ![now] = @ + 1]
    /\ Goto(p, "r238")
    /\ UNCHANGED <<now, result, called, limit, window, tokens, tickPending, ctx, added>>

\* Lines 233-234: select takes case <-r.tokens, ready when the channel holds a
\* permit (Go picks among the ready cases at random).
RLTake(p) ==
    /\ pc[p] = "r233"
    /\ tokens > 0
    /\ tokens' = tokens - 1
    /\ admittedAt' = [admittedAt EXCEPT ![now] = @ + 1]
    /\ Goto(p, "r238")
    /\ UNCHANGED <<now, result, called, limit, window, tickPending, ctx, added>>

\* Mutant of RLCtxDone: the cancelled call drains a permit that is there.
RLCtxDoneDrains(p) ==
    /\ pc[p] = "r233"
    /\ ctx[p] # "live"
    /\ tokens' = IF tokens > 0 THEN tokens - 1 ELSE tokens
    /\ result' = [result EXCEPT ![p] = "ctxErr"]
    /\ ctx' = [ctx EXCEPT ![p] = "live"]
    /\ Goto(p, "idle")
    /\ UNCHANGED <<now, called, limit, window, tickPending, admittedAt, added>>

\* Lines 235-236: select takes case <-ctx.Done(): return nil, ctx.Err()
RLCtxDone(p) ==
    /\ pc[p] = "r233"
    /\ ctx[p] # "live"
    /\ result' = [result EXCEPT ![p] = "ctxErr"]
    /\ ctx' = [ctx EXCEPT ![p] = "live"]
    /\ Goto(p, "idle")
    /\ UNCHANGED <<now, called, limit, window, tokens, tickPending, admittedAt, added>>

\* Line 238: r.next.Complete(ctx, req) is entered.
RLInvoke(p) ==
    /\ pc[p] = "r238"
    /\ called' = [called EXCEPT ![p] = TRUE]
    /\ Goto(p, "rinner")
    /\ UNCHANGED <<now, result, limit, window, tokens, tickPending, ctx, admittedAt, added>>

\* Line 238: r.next.Complete returns and so does Complete.
RLInnerReturn(p) ==
    /\ pc[p] = "rinner"
    /\ \E r \in {"ok", "innerErr"} : result' = [result EXCEPT ![p] = r]
    /\ ctx' = [ctx EXCEPT ![p] = "live"]
    /\ Goto(p, "idle")
    /\ UNCHANGED <<now, called, limit, window, tokens, tickPending, admittedAt, added>>

\* The clock advances; time.Tick(tick) puts a tick in its one-slot channel at
\* every multiple of tick and drops it when the slot is taken.
RLClock ==
    /\ now < MaxTimeRL
    /\ now' = now + 1
    /\ tickPending' = (tickPending \/ (now + 1) % TickOf(limit, window) = 0)
    /\ UNCHANGED <<pc, result, called, limit, window, tokens, ctx, admittedAt, added>>

\* Lines 221-226: the goroutine receives a tick and sends a permit unless the
\* channel is full (select with default).
RLReplenish ==
    /\ tickPending
    /\ tickPending' = FALSE
    /\ IF tokens < limit
         THEN tokens' = tokens + 1 /\ added' = added + 1
         ELSE UNCHANGED <<tokens, added>>
    /\ UNCHANGED <<now, pc, result, called, limit, window, ctx, admittedAt>>

RLStep(p) ==
    \/ RLEnter(p)
    \/ RLCancel(p)
    \/ RLTake(p)
    \/ RLCtxDone(p)
    \/ RLInvoke(p)
    \/ RLInnerReturn(p)

NextRL == (RLClock \/ RLReplenish \/ \E p \in Procs : RLStep(p)) /\ UNCHANGED <<cbVars, newVars>>

SpecRL == InitRL /\ [][NextRL]_vars

----------------------------------------------------------------------------
\* Executor.Execute (package executor): one call, with the caller's context
\* and the clock moving under it.

\* The middlewares' variables in the specifications that do not run them.
MwUnused ==
    /\ now = 0
    /\ pc = [p \in Procs |-> "idle"]
    /\ result = [p \in Procs |-> "none"]
    /\ called = [p \in Procs |-> FALSE]
    /\ threshold = <<1, 2>>
    /\ timeout = 1
    /\ state = cbClosed
    /\ requests = 0
    /\ failures = 0
    /\ openUntil = 0
    /\ mu = NoProc
    /\ seen = [p \in Procs |-> cbClosed]
    /\ lf = [p \in Procs |-> 0]
    /\ limit = 1
    /\ window = 1
    /\ tokens = 0
    /\ tickPending = FALSE
    /\ ctx = [p \in Procs |-> "live"]
    /\ admittedAt = [t \in 0..MaxTimeRL |-> 0]
    /\ added = 0

\* The backoffs an executor is built with: none (WithRetry(n, nil)), a function
\* returning 0, and ExponentialBackoff(1, 2).
ExBackoffs == {"nil", "zero", "exp"}
\* <<req.Timeout, e.BaseTimeout>>, in clock units; 0 is unset.
ExTimeoutPairs == {<<0, 0>>, <<0, 1>>, <<2, 1>>}
\* The errors a failing service returns, and the error of a done context.
ServiceErrs == {"errA", "errB"}
CtxErr == "ctxErr"

RECURSIVE Pow2(_)
Pow2(n) == IF n <= 0 THEN 1 ELSE 2 * Pow2(n - 1)

\* Lines 26-34: delay = base * 2^attempt, capped at max.
ExponentialBackoff(base, max, a) ==
    LET d == base * Pow2(a) IN IF d > max THEN max ELSE d

\* e.Backoff(attempt), for a Backoff that is not nil.
BackoffDelay(a) == IF exBackoff = "exp" THEN ExponentialBackoff(1, 2, a) ELSE 0

InitEx ==
    /\ MwUnused
    /\ NsUnused
    /\ ShUnused
    /\ NewMemoryRegistry
    /\ OpUnused
    /\ exMaxRetries \in -1..MaxRetriesBound
    /\ exBackoff \in ExBackoffs
    /\ exTimeouts \in ExTimeoutPairs
    /\ exPromptNil \in BOOLEAN
    /\ expc = "e89"
    /\ exnow = 0
    /\ exctx \in {"live", "cancelled"}
    /\ exdeadline = -1
    /\ attempt = 0
    /\ attempts = 0
    /\ lastErr = "nil"
    /\ wakeAt = 0
    /\ exInterrupted = FALSE
    /\ exrenders = 0
    /\ exlog = <<>>
    /\ exresult = NoResult
    /\ CaUnused
    /\ MemUnused
    /\ MetFresh
    /\ ChUnused
    /\ CeUnused

\* Lines 89-91: if req.Prompt == nil
ExCheckPrompt ==
    /\ expc = "e89"
    /\ IF exPromptNil
         THEN /\ exresult' = [kind |-> "promptRequired", value |-> FALSE,
                              attempts |-> 0, wraps |-> "nil"]
              /\ expc' = "done"
         ELSE expc' = "e92" /\ UNCHANGED exresult
    /\ UNCHANGED <<exInterrupted, exMaxRetries, exBackoff, exTimeouts, exPromptNil, exnow, exctx,
                   exdeadline, attempt, attempts, lastErr, wakeAt, exrenders, exlog>>

\* A render step that records the failure but goes on to the provider.
ExRenderGoesOn ==
    /\ expc = "e92"
    /\ exrenders' = exrenders + 1
    /\ \E ok \in BOOLEAN :
         IF ok
           THEN UNCHANGED exresult
           ELSE exresult' = [kind |-> "render", value |-> FALSE,
                             attempts |-> 0, wraps |-> "renderErr"]
    /\ expc' = "e96"
    /\ UNCHANGED <<exInterrupted, exMaxRetries, exBackoff, exTimeouts, exPromptNil, exnow, exctx,
                   exdeadline, attempt, attempts, lastErr, wakeAt, exlog>>

\* Lines 92-95: req.Prompt.Render succeeds or fails; a failure is returned
\* wrapped ("executor render: %w").
ExRender ==
    /\ expc = "e92"
    /\ exrenders' = exrenders + 1
    /\ \E ok \in BOOLEAN :
         IF ok
           THEN expc' = "e96" /\ UNCHANGED exresult
           ELSE /\ exresult' = [kind |-> "render", value |-> FALSE,
                                attempts |-> 0, wraps |-> "renderErr"]
                /\ expc' = "done"
    /\ UNCHANGED <<exInterrupted, exMaxRetries, exBackoff, exTimeouts, exPromptNil, exnow, exctx,
                   exdeadline, attempt, attempts, lastErr, wakeAt, exlog>>

\* Lines 96-99: timeout := req.Timeout, or e.BaseTimeout when that is 0.
ExTimeout == IF exTimeouts[1] = 0 THEN exTimeouts[2] ELSE exTimeouts[1]

\* A loop that stops one attempt early.
ExLoopCondStrict(a) == a < exMaxRetries

\* Line 119: the loop condition attempt <= e.MaxRetries.
ExLoopCond(a) == a <= exMaxRetries

\* Lines 119-120, for the value a of attempt: into the loop body (attempts++)
\* or out of the loop.
ExLoop(a) ==
    /\ attempt' = a
    /\ IF ExLoopCond(a)
         THEN attempts' = attempts + 1 /\ expc' = "e121"
         ELSE attempts' = attempts /\ expc' = "e139"

\* Lines 100-119: context.WithTimeout when timeout > 0 (a deadline that has
\* passed makes the context done at once), creq is built, the loop starts.
ExStart ==
    /\ expc = "e96"
    /\ IF ExTimeout > 0
         THEN /\ exdeadline' = exnow + ExTimeout
              /\ exctx' = exctx
         ELSE UNCHANGED <<exdeadline, exctx>>
    /\ ExLoop(0)
    /\ UNCHANGED <<exInterrupted, exMaxRetries, exBackoff, exTimeouts, exPromptNil, exnow,
                   lastErr, wakeAt, exrenders, exlog, exresult>>

\* Line 121: e.Provider.Complete(ctx, creq) is entered.
ExCall ==
    /\ expc = "e121"
    /\ expc' = "complete"
    /\ UNCHANGED <<exInterrupted, exMaxRetries, exBackoff, exTimeouts, exPromptNil, exnow, exctx,
                   exdeadline, attempt, attempts, lastErr, wakeAt, exrenders, exlog,
                   exresult>>

\* What Complete may return: a response, a service error, or (only when the
\* context is done) the context's error.
ExOutcomes == {"ok"} \cup ServiceErrs \cup (IF exctx = "live" THEN {} ELSE {CtxErr})

\* An executor that keeps the first error instead of the last one.
ExFirstErr(e) == IF lastErr = "nil" THEN e ELSE lastErr

\* Line 131: lastErr = err
ExLastErr(e) == e

\* An executor that reports the 0-based loop index.
ExAttemptIndex == attempt

\* Line 128: Attempts: attempts
ExAttemptsReported == attempts

\* Lines 121-137: Complete returns.  Without error Execute returns the result;
\* with one, lastErr is set, the loop is left on the last attempt, and otherwise
\* the backoff is slept (time.Sleep) when there is one.
ExCompleteReturn ==
    /\ expc = "complete"
    /\ \E r \in ExOutcomes :
        /\ exlog' = Append(exlog, r)
        /\ IF r = "ok"
             THEN /\ exresult' = [kind |-> "ok", value |-> TRUE,
                                  attempts |-> ExAttemptsReported, wraps |-> "nil"]
                  /\ expc' = "done"
                  /\ UNCHANGED <<attempt, attempts, lastErr, wakeAt>>
             ELSE /\ lastErr' = ExLastErr(r)
                  /\ UNCHANGED exresult
                  /\ IF attempt = exMaxRetries
                       THEN expc' = "e139" /\ UNCHANGED <<attempt, attempts, wakeAt>>
                       ELSE IF exBackoff # "nil"
                              THEN /\ wakeAt' = exnow + BackoffDelay(attempt)
                                   /\ expc' = "e136"
                                   /\ UNCHANGED <<attempt, attempts>>
                              ELSE ExLoop(attempt + 1) /\ UNCHANGED wakeAt
    /\ UNCHANGED <<exInterrupted, exMaxRetries, exBackoff, exTimeouts, exPromptNil, exnow, exctx,
                   exdeadline, exrenders>>

\* Lines 136 and 119: time.Sleep returns once the delay has passed, whatever
\* the context; attempt++ and the loop condition.
ExWake ==
    /\ expc = "e136"
    /\ exnow >= wakeAt
    /\ ExLoop(attempt + 1)
    /\ UNCHANGED <<exInterrupted, exMaxRetries, exBackoff, exTimeouts, exPromptNil, exnow, exctx,
                   exdeadline, lastErr, wakeAt, exrenders, exlog, exresult>>

\* Line 139: return nil, fmt.Errorf("executor after %d attempts: %w", attempts, lastErr)
ExReturnErr ==
    /\ expc = "e139"
    /\ exresult' = [kind |-> "exhausted", value |-> FALSE,
                    attempts |-> attempts, wraps |-> lastErr]
    /\ expc' = "done"
    /\ UNCHANGED <<exInterrupted, exMaxRetries, exBackoff, exTimeouts, exPromptNil, exnow, exctx,
                   exdeadline, attempt, attempts, lastErr, wakeAt, exrenders, exlog>>

\* The clock advances; the context built by context.WithTimeout is done from
\* its deadline on.
ExTick ==
    /\ expc # "done"
    /\ exnow < MaxTimeEx
    /\ exnow' = exnow + 1
    /\ exctx' = IF exctx = "live" /\ exdeadline >= 0 /\ exnow + 1 >= exdeadline
                  THEN "deadline" ELSE exctx
    /\ exInterrupted' = (exInterrupted \/ (exctx = "live" /\ exctx' # "live"
                                            /\ expc = "e136" /\ exnow + 1 < wakeAt))
    /\ UNCHANGED <<exMaxRetries, exBackoff, exTimeouts, exPromptNil, expc,
                   exdeadline, attempt, attempts, lastErr, wakeAt, exrenders, exlog,
                   exresult>>

\* The caller cancels the context it passed to Execute.
ExCancel ==
    /\ expc # "done"
    /\ exctx = "live"
    /\ exctx' = "cancelled"
    /\ exInterrupted' = (exInterrupted \/ (expc = "e136" /\ exnow < wakeAt))
    /\ UNCHANGED <<exMaxRetries, exBackoff, exTimeouts, exPromptNil, expc, exnow,
                   exdeadline, attempt, attempts, lastErr, wakeAt, exrenders, exlog,
                   exresult>>

NextEx ==
    /\ \/ ExCheckPrompt
       \/ ExRender
       \/ ExStart
       \/ ExCall
       \/ ExCompleteReturn
       \/ ExWake
       \/ ExReturnErr
       \/ ExTick
       \/ ExCancel
    /\ UNCHANGED <<mwVars, caVars, memVars, metVars, chVars, ceVars, opVars, rgVars, shVars, nsVars>>

SpecEx == InitEx /\ [][NextEx]_vars

----------------------------------------------------------------------------
\* cacheProvider.Complete over an InMemoryCache (package middleware): one
\* caller making its calls one after the other, and the clock.

\* time.Hour, in clock units.
Hour == 2
\* The ttl values CacheMiddleware is called with.
CaTTLArgs == {0, 1}

\* Lines 123-126: a ttl <= 0 becomes time.Hour.
CacheMiddlewareTTL(ttl) == IF ttl <= 0 THEN Hour ELSE ttl

\* What Metadata (map[string]interface{}) a response carries: values
\* json.Marshal accepts, or a value it rejects (a channel, a func, a NaN).
Metadatas == {"json", "chan"}

\* Lines 194-196: json.Marshal of the response; ok is FALSE for its error.
encodeResponse(resp) ==
    IF resp.meta = "chan"
      THEN [ok |-> FALSE, json |-> 0, meta |-> "json"]
      ELSE [ok |-> TRUE, json |-> resp.content, meta |-> resp.meta]

\* Lines 197-199: json.Unmarshal into a CompletionResponse.
decodeResponse(raw) == [content |-> raw.json, meta |-> raw.meta]

\* An entry whose expiry ignores the ttl.
MemEntryNoTTL(val, ttl, t) == [val |-> val, expires |-> t]

\* Line 189: cacheEntry{val: val, expires: time.Now().Add(ttl)}
MemEntry(val, ttl, t) == [val |-> val, expires |-> t + ttl]

\* A Get that serves whatever the map holds.
MemLiveAlways(e, t) == e # NoEntry

\* Line 181: the entry read is served unless !ok || time.Now().After(e.expires).
MemLive(e, t) == e # NoEntry /\ ~(t > e.expires)

InitCache ==
    /\ MwUnused
    /\ NsUnused
    /\ ShUnused
    /\ NewMemoryRegistry
    /\ OpUnused
    /\ ExUnused
    /\ caCache \in {"nil", "mem"}
    /\ \E a \in CaTTLArgs : caTTL = CacheMiddlewareTTL(a)
    /\ store = [k \in CaKeys |-> NoEntry]
    /\ cnow = 0
    /\ capc = "idle"
    /\ careq = <<<<>>, <<>>, <<>>>>
    /\ caGetAt = 0
    /\ calog = <<>>
    /\ MemUnused
    /\ MetFresh
    /\ ChUnused
    /\ CeUnused

\* A finished call: what was asked, when the key was looked up, whether the
\* inner service was invoked, what came back, and when the call returned.
CaRecord(req, getAt, invoked, ok, resp, doneAt) ==
    [req |-> req, getAt |-> getAt, invoked |-> invoked, ok |-> ok, resp |-> resp,
     doneAt |-> doneAt]

\* How often the inner service has been invoked so far.
CaInnerCalls == Cardinality({ i \in 1..Len(calog) : calog[i].invoked })

\* A caller enters cacheProvider.Complete.
CaCall ==
    /\ capc = "idle"
    /\ Len(calog) < MaxCacheCalls
    /\ \E r \in CaRequests : careq' = r
    /\ capc' = "c133"
    /\ UNCHANGED <<caCache, caTTL, store, cnow, caGetAt, calog>>

\* Lines 133-141: the key is looked up (InMemoryCache.Get, lines 177-185); a
\* live entry that decodes is returned without calling the inner service.
CaLookup ==
    /\ capc = "c133"
    /\ caGetAt' = cnow
    /\ LET e == store[CacheKey(careq)] IN
         IF caCache # "nil" /\ MemLive(e, cnow)
           THEN /\ calog' = Append(calog, CaRecord(careq, cnow, FALSE, TRUE,
                                                   decodeResponse(e.val), cnow))
                /\ capc' = "idle"
           ELSE /\ capc' = "c142"
                /\ UNCHANGED calog
    /\ UNCHANGED <<caCache, caTTL, store, cnow, careq>>

\* Lines 142-145: the inner service fails; the error is returned.
CaInnerFails ==
    /\ capc = "c142"
    /\ calog' = Append(calog, CaRecord(careq, caGetAt, TRUE, FALSE,
                                       [content |-> 0, meta |-> "json"], cnow))
    /\ capc' = "idle"
    /\ UNCHANGED <<caCache, caTTL, store, cnow, careq, caGetAt>>

\* Lines 146-150: the response is stored when there is a cache and
\* encodeResponse succeeds (InMemoryCache.Set, lines 187-192).
CaStore(key, resp) ==
    IF caCache # "nil" /\ encodeResponse(resp).ok
      THEN [store EXCEPT ![key] = MemEntry(encodeResponse(resp), caTTL, cnow)]
      ELSE store

\* Lines 142-151: the inner service answers; the response is stored and
\* returned.
CaInnerReturns ==
    /\ capc = "c142"
    /\ \E m \in Metadatas :
         LET resp == [content |-> CaInnerCalls + 1, meta |-> m]
             key == CacheKey(careq)
         IN /\ store' = CaStore(key, resp)
            /\ calog' = Append(calog, CaRecord(careq, caGetAt, TRUE, TRUE, resp, cnow))
    /\ capc' = "idle"
    /\ UNCHANGED <<caCache, caTTL, cnow, careq, caGetAt>>

CaTick ==
    /\ cnow < MaxTimeCa
    /\ cnow' = cnow + 1
    /\ UNCHANGED <<caCache, caTTL, store, capc, careq, caGetAt, calog>>

NextCache ==
    /\ \/ CaCall
       \/ CaLookup
       \/ CaInnerFails
       \/ CaInnerReturns
       \/ CaTick
    /\ UNCHANGED <<mwVars, exVars, memVars, metVars, chVars, ceVars, opVars, rgVars, shVars, nsVars>>

SpecCache == InitCache /\ [][NextCache]_vars

----------------------------------------------------------------------------
\* InMemoryCache.Get and Set called directly by concurrent goroutines.  The
\* map is read and written under m.mu, so each access is one step; Get tests
\* the expiry after it has released the lock.

\* The ttl values Set is called with.
MemTTLs == {0, 1}

InitMem ==
    /\ MwUnused
    /\ NsUnused
    /\ ShUnused
    /\ NewMemoryRegistry
    /\ OpUnused
    /\ ExUnused
    /\ CaUnused
    /\ MemUnused
    /\ MetFresh
    /\ ChUnused
    /\ CeUnused

\* Lines 187-192: Set stores the entry under the write lock.  The value
\* stored is numbered by the call that stored it.
MemSet(p) ==
    /\ mpc[p] = "idle"
    /\ mops < MaxMemOps
    /\ \E k \in CaKeys, ttl \in MemTTLs :
         LET v == [ok |-> TRUE, json |-> mops + 1, meta |-> "json"] IN
         /\ store' = [store EXCEPT ![k] = MemEntry(v, ttl, cnow)]
         /\ msets' = msets \cup {[key |-> k, val |-> v, at |-> cnow, ttl |-> ttl]}
         /\ mlast' = [op |-> "set", key |-> k]
    /\ mops' = mops + 1
    /\ UNCHANGED <<caCache, caTTL, cnow, capc, careq, caGetAt, calog>>
    /\ UNCHANGED <<mpc, mkey, ment, mret>>

\* Lines 178-180: Get reads the entry under the read lock.
MemGetRead(p) ==
    /\ mpc[p] = "idle"
    /\ mops < MaxMemOps
    /\ \E k \in CaKeys :
         /\ mkey' = [mkey EXCEPT ![p] = k]
         /\ ment' = [ment EXCEPT ![p] = store[k]]
         /\ mlast' = [op |-> "get", key |-> k]
    /\ mops' = mops + 1
    /\ mpc' = [mpc EXCEPT ![p] = "g181"]
    /\ UNCHANGED <<caVars, mret, msets>>

\* Lines 181-184: Get reads the clock and returns the entry, or a miss.
MemGetReturn(p) ==
    /\ mpc[p] = "g181"
    /\ mret' = [mret EXCEPT ![p] =
                  IF MemLive(ment[p], cnow)
                    THEN [key |-> mkey[p], ok |-> TRUE, val |-> ment[p].val, at |-> cnow]
                    ELSE [key |-> mkey[p], ok |-> FALSE, val |-> NoEntry.val, at |-> cnow]]
    /\ mpc' = [mpc EXCEPT ![p] = "idle"]
    /\ UNCHANGED <<caVars, mkey, ment, mops, msets, mlast>>

MemTick ==
    /\ cnow < MaxTimeMem
    /\ cnow' = cnow + 1
    /\ UNCHANGED <<caCache, caTTL, store, capc, careq, caGetAt, calog, memVars>>

NextMem ==
    /\ \/ \E p \in MemProcs : MemSet(p)
       \/ \E p \in MemProcs : MemGetRead(p)
       \/ \E p \in MemProcs : MemGetReturn(p)
       \/ MemTick
    /\ UNCHANGED <<mwVars, exVars, metVars, chVars, ceVars, opVars, rgVars, shVars, nsVars>>

SpecMem == InitMem /\ [][NextMem]_vars

----------------------------------------------------------------------------
\* metricsProvider.Complete called by concurrent goroutines; every atomic Add
\* is a step of its own.

\* Token counts a response reports (TokenUsage.PromptTokens, CompletionTokens).
\* They are not negative, so uint64() keeps their value, and the counters stay
\* far below 2^64, so atomic.Uint64.Add is plain addition.
TokenCounts == {0, 1, 2}

InitMetrics ==
    /\ MwUnused
    /\ NsUnused
    /\ ShUnused
    /\ NewMemoryRegistry
    /\ OpUnused
    /\ ExUnused
    /\ CaUnused
    /\ MemUnused
    /\ MetFresh
    /\ ChUnused
    /\ CeUnused

\* Line 90: m.requests.Add(1)
MtAddRequest(p) ==
    /\ mtpc[p] = "idle"
    /\ mtCalls < MaxMetricCalls
    /\ mtCalls' = mtCalls + 1
    /\ metRequests' = metRequests + 1
    /\ mtpc' = [mtpc EXCEPT ![p] = "m91"]
    /\ UNCHANGED <<metErrors, metPromptTok, metCompleteTok, mtresp, mtErrs,
                   mtSumPrompt, mtSumComplete>>

\* Lines 91-92: the inner service fails.
MtInnerFails(p) ==
    /\ mtpc[p] = "m91"
    /\ mtErrs' = mtErrs + 1
    /\ mtpc' = [mtpc EXCEPT ![p] = "m93"]
    /\ UNCHANGED <<metRequests, metErrors, metPromptTok, metCompleteTok, mtresp,
                   mtCalls, mtSumPrompt, mtSumComplete>>

\* Lines 91-92: the inner service answers, reporting its token usage.
MtInnerReturns(p) ==
    /\ mtpc[p] = "m91"
    /\ \E pt \in TokenCounts, ct \in TokenCounts :
         /\ mtresp' = [mtresp EXCEPT ![p] = <<pt, ct>>]
         /\ mtSumPrompt' = mtSumPrompt + pt
         /\ mtSumComplete' = mtSumComplete + ct
    /\ mtpc' = [mtpc EXCEPT ![p] = "m96"]
    /\ UNCHANGED <<metRequests, metErrors, metPromptTok, metCompleteTok, mtCalls,
                   mtErrs>>

\* Lines 93-94: m.errors.Add(1); return nil, err
MtAddError(p) ==
    /\ mtpc[p] = "m93"
    /\ metErrors' = metErrors + 1
    /\ mtpc' = [mtpc EXCEPT ![p] = "idle"]
    /\ UNCHANGED <<metRequests, metPromptTok, metCompleteTok, mtresp, mtCalls,
                   mtErrs, mtSumPrompt, mtSumComplete>>

\* A decorator that counts the completion tokens as prompt tokens.
MtPromptDeltaSwapped(usage) == usage[2]

\* Line 96: uint64(resp.Usage.PromptTokens)
MtPromptDelta(usage) == usage[1]

\* Line 96: m.promptTok.Add(...)
MtAddPrompt(p) ==
    /\ mtpc[p] = "m96"
    /\ metPromptTok' = metPromptTok + MtPromptDelta(mtresp[p])
    /\ mtpc' = [mtpc EXCEPT ![p] = "m97"]
    /\ UNCHANGED <<metRequests, metErrors, metCompleteTok, mtresp, mtCalls,
                   mtErrs, mtSumPrompt, mtSumComplete>>

\* Lines 97-98: m.completeTok.Add(uint64(resp.Usage.CompletionTokens)); return
MtAddComplete(p) ==
    /\ mtpc[p] = "m97"
    /\ metCompleteTok' = metCompleteTok + mtresp[p][2]
    /\ mtpc' = [mtpc EXCEPT ![p] = "idle"]
    /\ UNCHANGED <<metRequests, metErrors, metPromptTok, mtresp, mtCalls,
                   mtErrs, mtSumPrompt, mtSumComplete>>

NextMetrics ==
    /\ \E p \in MetProcs :
         \/ MtAddRequest(p)
         \/ MtInnerFails(p)
         \/ MtInnerReturns(p)
         \/ MtAddError(p)
         \/ MtAddPrompt(p)
         \/ MtAddComplete(p)
    /\ UNCHANGED <<mwVars, exVars, caVars, memVars, chVars, ceVars, opVars, rgVars, shVars, nsVars>>

SpecMetrics == InitMetrics /\ [][NextMetrics]_vars

----------------------------------------------------------------------------
\* middleware.Chain(p, mws...), and one Complete call on what it returns.

\* The middlewares callers pass; each wraps a provider in a layer of its own
\* that forwards Complete to the provider it wrapped.
MwNames == {"m1", "m2", "m3"}

RECURSIVE SeqsUpTo(_, _)
SeqsUpTo(S, n) ==
    IF n = 0 THEN {<<>>}
    ELSE SeqsUpTo(S, n - 1) \cup
         { Append(q, x) : q \in { r \in SeqsUpTo(S, n - 1) : Len(r) = n - 1 }, x \in S }

\* Line 20: mws[i](p), a provider whose outermost layer is m and whose next is p.
Wrap(m, prov) == <<m>> \o prov

InitChain ==
    /\ MwUnused
    /\ NsUnused
    /\ ShUnused
    /\ NewMemoryRegistry
    /\ OpUnused
    /\ ExUnused
    /\ CaUnused
    /\ MemUnused
    /\ MetFresh
    /\ CeUnused
    /\ chMws \in SeqsUpTo(MwNames, MaxMws)
    /\ chpc = "c19"
    /\ chI = Len(chMws)
    /\ chP = BaseProvider
    /\ chResult = <<>>
    /\ chPos = 0
    /\ chTrace = <<>>

\* A loop that takes the middlewares first to last.
ChLoopForward ==
    /\ chpc = "c19"
    /\ IF chI >= 1
         THEN /\ chP' = Wrap(chMws[Len(chMws) - chI + 1], chP)
              /\ chI' = chI - 1
              /\ UNCHANGED chpc
         ELSE /\ chpc' = "c22"
              /\ UNCHANGED <<chP, chI>>
    /\ UNCHANGED <<chMws, chResult, chPos, chTrace>>

\* Lines 19-21: for i := len(mws) - 1; i >= 0; i-- { p = mws[i](p) }
\* (chI is i + 1).
ChLoop ==
    /\ chpc = "c19"
    /\ IF chI >= 1
         THEN /\ chP' = Wrap(chMws[chI], chP)
              /\ chI' = chI - 1
              /\ UNCHANGED chpc
         ELSE /\ chpc' = "c22"
              /\ UNCHANGED <<chP, chI>>
    /\ UNCHANGED <<chMws, chResult, chPos, chTrace>>

\* Line 22: return p
ChReturn ==
    /\ chpc = "c22"
    /\ chResult' = chP
    /\ chpc' = "built"
    /\ UNCHANGED <<chMws, chI, chP, chPos, chTrace>>

\* The caller calls Complete on the provider Chain returned.
ChComplete ==
    /\ chpc = "built"
    /\ chpc' = "call"
    /\ chPos' = 1
    /\ UNCHANGED <<chMws, chI, chP, chResult, chTrace>>

\* The call reaches the next layer, which forwards it to the one it wraps; the
\* innermost layer is the provider itself.
ChReach ==
    /\ chpc = "call"
    /\ chTrace' = Append(chTrace, chResult[chPos])
    /\ IF chPos < Len(chResult)
         THEN chPos' = chPos + 1 /\ UNCHANGED chpc
         ELSE chpc' = "done" /\ UNCHANGED chPos
    /\ UNCHANGED <<chMws, chI, chP, chResult>>

NextChain ==
    /\ \/ ChLoop
       \/ ChReturn
       \/ ChComplete
       \/ ChReach
    /\ UNCHANGED <<mwVars, exVars, caVars, memVars, metVars, ceVars, opVars, rgVars, shVars, nsVars>>

SpecChain == InitChain /\ [][NextChain]_vars

----------------------------------------------------------------------------
\* Chain.Execute (package chain) on the chain A, Parallel(B, C), D: the
\* goroutine that runs Execute, the goroutines runParallel starts, and the
\* owner of ctx.

\* The names the four steps are given; Step and Parallel accept any name, so
\* two steps of one group, or of different nodes, may bear the same one.
CeNamings == { <<"a", "b", n3, n4>> : n3 \in {"c", "b"}, n4 \in {"d", "a"} }

\* The conditions the four steps are given: none ("nil"), one that returns
\* false, or one that returns result.Get("b") != "".
CeConditions ==
    { <<"nil", c2, c3, c4>> : c2 \in {"nil", "false"}, c3 \in {"nil", "seen"},
                              c4 \in {"nil", "seen"} }

\* Whether the chain has an executor, and the options its steps are built
\* with (WithRetry, WithFallback).  Without an executor, and with a single
\* attempt, retries and backoff play no part.
CeOptions ==
    { [exec |-> FALSE, maxRetries |-> 0, fallback |-> f, backoff |-> FALSE] :
        f \in BOOLEAN }
    \cup { [exec |-> TRUE, maxRetries |-> -1, fallback |-> FALSE, backoff |-> FALSE] }
    \cup { [exec |-> TRUE, maxRetries |-> 0, fallback |-> f, backoff |-> FALSE] :
             f \in BOOLEAN }
    \cup { [exec |-> TRUE, maxRetries |-> r, fallback |-> f, backoff |-> b] :
             r \in 1..MaxStepRetries, f \in BOOLEAN, b \in BOOLEAN }

InitCE ==
    /\ MwUnused
    /\ NsUnused
    /\ ShUnused
    /\ NewMemoryRegistry
    /\ OpUnused
    /\ ExUnused
    /\ CaUnused
    /\ MemUnused
    /\ MetFresh
    /\ ChUnused
    /\ ceNames \in CeNamings
    /\ ceConds \in CeConditions
    /\ ceOpts \in CeOptions
    /\ CeFresh

ceCfg == <<ceNames, ceConds, ceOpts>>

\* What a step of Execute or runParallel leaves alone.
CeMainFrame == UNCHANGED <<ceCfg, ceCtxDone, ceSaw, ceRuns, ceFb>>

\* What a step of runStep leaves alone.
CeStepFrame ==
    UNCHANGED <<ceCfg, cepc, ceNode, ceLaunch, ceResult, ceInput, ceSt, ceWg, ceCh,
                ceOut, ceCtxDone, ceReturned, ceGroupInput, ceWrites>>

\* s.condition(ctx, result), for a condition that is not nil.
CeCondition(c, res) == IF c = "seen" THEN res["b"] # NoOut ELSE FALSE

\* A step that is never skipped.
CeNeverSkipped(i) == FALSE

\* Lines 186 and 261: s.condition != nil && !s.condition(ctx, result)
CeSkipped(i) == ceConds[i] # "nil" /\ ~CeCondition(ceConds[i], ceResult)

\* A retry loop that is left once some step of the chain has failed.
CeLoopEntryUnlessFailed(a) ==
    IF a <= ceOpts.maxRetries /\ (a = 0 \/ \A j \in CeSteps : ceSt[j] # "failed")
    THEN "r218" ELSE "ret"

\* Line 217: the loop condition, for the value a of attempt: into the loop
\* body, or past the loop to the render at line 244.
CeLoopEntry(a) == IF a <= ceOpts.maxRetries THEN "r218" ELSE "r244"

\* Lines 202-217: runStep is entered.
CeRunStepEntered ==
    [CeIdle EXCEPT !.pc = IF ceOpts.exec THEN CeLoopEntry(0) ELSE "r244"]

\* The errors of step i: of a run of its primary task, of its fallback, of its
\* render without an executor, and of a done context.
CePrimaryErr(i, a) ==
    [annot |-> "", msg |-> "plain", step |-> i, task |-> "primary", attempt |-> a]
CeFallbackErr(i) ==
    [annot |-> "", msg |-> "plain", step |-> i, task |-> "fallback", attempt |-> 0]
CeRenderErr(i) ==
    [annot |-> "", msg |-> "plain", step |-> i, task |-> "render", attempt |-> 0]
CeCtxErr(i) ==
    [annot |-> "", msg |-> "ctx", step |-> i, task |-> "none", attempt |-> 0]

\* An error that wraps the fallback's own error.
CeWrapFallbackErr(last, own) == [own EXCEPT !.msg = "step and fallback failed"]

\* Line 228: fmt.Errorf("step and fallback failed: %w", lastErr)
CeBothFailed(last, own) == [last EXCEPT !.msg = "step and fallback failed"]

\* Line 191: fmt.Errorf("chain step %q: %w", s.name, err)
CeAnnotate(name, e) == [e EXCEPT !.annot = name]

\* A fallback whose output is dropped: the step fails with the primary's error.
CeFallbackIgnored(i, rs) == [rs EXCEPT !.pc = "ret", !.err = rs.lastErr]

\* Lines 226-230: the fallback succeeded; its Content is the step's output.
CeFallbackOk(i, rs) == [rs EXCEPT !.pc = "ret", !.val = [by |-> i, kind |-> "fallback"]]

\* Lines 218-240: c.exec.Execute(ctx, req) for the primary task returns.
RsExecute(i) ==
    /\ ceSt[i] = "running"
    /\ ceRs[i].pc = "r218"
    /\ ceSaw' = [ceSaw EXCEPT ![i] = ceInput]
    /\ ceRuns' = [ceRuns EXCEPT ![i].primary = @ + 1]
    /\ UNCHANGED ceFb
    /\ \E ok \in BOOLEAN :
         LET rs == ceRs[i]
             e == CePrimaryErr(i, rs.attempt)
         IN ceRs' = [ceRs EXCEPT ![i] =
              IF ok
                THEN [rs EXCEPT !.pc = "ret", !.val = [by |-> i, kind |-> "primary"]]
              ELSE IF rs.attempt = ceOpts.maxRetries
                THEN IF ceOpts.fallback
                       THEN [rs EXCEPT !.pc = "r226", !.lastErr = e]
                       ELSE [rs EXCEPT !.pc = "ret", !.lastErr = e, !.err = e]
              ELSE IF ceOpts.backoff
                THEN [rs EXCEPT !.pc = "r235", !.lastErr = e]
              ELSE [rs EXCEPT !.pc = CeLoopEntry(rs.attempt + 1), !.lastErr = e,
                              !.attempt = rs.attempt + 1]]
    /\ CeStepFrame

\* Lines 225-230: c.exec.Execute(ctx, req) for the fallback returns.
RsFallback(i) ==
    /\ ceSt[i] = "running"
    /\ ceRs[i].pc = "r226"
    /\ ceSaw' = [ceSaw EXCEPT ![i] = ceInput]
    /\ ceRuns' = [ceRuns EXCEPT ![i].fallback = @ + 1]
    /\ \E ok \in BOOLEAN :
         /\ ceFb' = [ceFb EXCEPT ![i] = IF ok THEN "ok" ELSE "failed"]
         /\ ceRs' = [ceRs EXCEPT ![i] =
              IF ok
                THEN CeFallbackOk(i, ceRs[i])
                ELSE [ceRs[i] EXCEPT !.pc = "ret",
                        !.err = CeBothFailed(ceRs[i].lastErr, CeFallbackErr(i))]]
    /\ CeStepFrame

\* Lines 234-240: the select between ctx.Done() and the backoff timer; with
\* the context done either case may be taken.
RsBackoff(i) ==
    /\ ceSt[i] = "running"
    /\ ceRs[i].pc = "r235"
    /\ \E c \in (IF ceCtxDone THEN {"done", "timer"} ELSE {"timer"}) :
         ceRs' = [ceRs EXCEPT ![i] =
              IF c = "done"
                THEN [ceRs[i] EXCEPT !.pc = "ret", !.err = CeCtxErr(i)]
                ELSE [ceRs[i] EXCEPT !.pc = CeLoopEntry(ceRs[i].attempt + 1),
                                     !.attempt = ceRs[i].attempt + 1]]
    /\ UNCHANGED <<ceSaw, ceRuns, ceFb>>
    /\ CeStepFrame

\* Lines 244-248: s.prompt.Render(ctx, input) returns.
RsRender(i) ==
    /\ ceSt[i] = "running"
    /\ ceRs[i].pc = "r244"
    /\ ceSaw' = [ceSaw EXCEPT ![i] = ceInput]
    /\ ceRuns' = [ceRuns EXCEPT ![i].primary = @ + 1]
    /\ UNCHANGED ceFb
    /\ \E ok \in BOOLEAN :
         ceRs' = [ceRs EXCEPT ![i] =
              IF ok
                THEN [ceRs[i] EXCEPT !.pc = "ret", !.val = [by |-> i, kind |-> "rendered"]]
                ELSE [ceRs[i] EXCEPT !.pc = "ret", !.err = CeRenderErr(i)]]
    /\ CeStepFrame

\* Lines 174-175 and 198: the next node, or return result, nil.
CeNextNode ==
    /\ cepc = "x174"
    /\ IF ceNode > Len(CeNodes)
         THEN /\ ceReturned' = [kind |-> "ok", result |-> ceResult, err |-> NoErr]
              /\ cepc' = "done"
              /\ UNCHANGED <<ceLaunch, ceWg, ceCh, ceOut, ceGroupInput>>
         ELSE IF CeNodes[ceNode].parallel
           THEN /\ cepc' = "p260"
                /\ ceLaunch' = 1
                /\ ceWg' = 0
                /\ ceCh' = <<>>
                /\ ceOut' = CeEmptyMap
                /\ ceGroupInput' = ceInput
                /\ UNCHANGED ceReturned
           ELSE /\ cepc' = "x186"
                /\ UNCHANGED <<ceLaunch, ceWg, ceCh, ceOut, ceGroupInput, ceReturned>>
    /\ UNCHANGED <<ceNode, ceResult, ceInput, ceSt, ceRs, ceWrites>>
    /\ CeMainFrame

\* Lines 185-189: the condition of a sequential step; the step is skipped or
\* runStep is called.
CeSeqStep ==
    /\ cepc = "x186"
    /\ LET i == CeNodes[ceNode].steps[1] IN
         IF CeSkipped(i)
           THEN /\ ceSt' = [ceSt EXCEPT ![i] = "skipped"]
                /\ ceNode' = ceNode + 1
                /\ cepc' = "x174"
                /\ UNCHANGED ceRs
           ELSE /\ ceSt' = [ceSt EXCEPT ![i] = "running"]
                /\ ceRs' = [ceRs EXCEPT ![i] = CeRunStepEntered]
                /\ cepc' = "x189"
                /\ UNCHANGED ceNode
    /\ UNCHANGED <<ceLaunch, ceResult, ceInput, ceWg, ceCh, ceOut, ceReturned,
                   ceGroupInput, ceWrites>>
    /\ CeMainFrame

\* An Execute that hands the outputs collected so far back with the error.
CeErrReturnPartial(e) == [kind |-> "err", result |-> ceResult, err |-> e]

\* Lines 178 and 191: return nil, err.  The nil *ChainResult is a result
\* through which no output is visible.
CeErrReturn(e) == [kind |-> "err", result |-> CeEmptyMap, err |-> e]

\* A chain that goes on to the next node after a step failed.
CeSeqFailedGoesOn(i) ==
    /\ ceSt' = [ceSt EXCEPT ![i] = "failed"]
    /\ ceNode' = ceNode + 1
    /\ cepc' = "x174"
    /\ UNCHANGED <<ceReturned, ceResult, ceInput, ceWrites>>

\* Lines 190-192: return nil, fmt.Errorf("chain step %q: %w", s.name, err)
CeSeqFailed(i) ==
    /\ ceSt' = [ceSt EXCEPT ![i] = "failed"]
    /\ ceReturned' = CeErrReturn(CeAnnotate(ceNames[i], ceRs[i].err))
    /\ cepc' = "done"
    /\ UNCHANGED <<ceNode, ceResult, ceInput, ceWrites>>

\* Lines 189-194: runStep has returned to Execute.
CeSeqReturn ==
    /\ cepc = "x189"
    /\ LET i == CeNodes[ceNode].steps[1] IN
         /\ ceRs[i].pc = "ret"
         /\ IF ceRs[i].err # NoErr
              THEN CeSeqFailed(i)
              ELSE /\ ceResult' = [ceResult EXCEPT ![ceNames[i]] = ceRs[i].val]
                   /\ ceInput' = [ceInput EXCEPT ![ceNames[i]] = ceRs[i].val]
                   /\ ceWrites' = [ceWrites EXCEPT ![ceNames[i]] = @ + 1]
                   /\ ceSt' = [ceSt EXCEPT ![i] = "ok"]
                   /\ ceNode' = ceNode + 1
                   /\ cepc' = "x174"
                   /\ UNCHANGED ceReturned
    /\ UNCHANGED <<ceLaunch, ceRs, ceWg, ceCh, ceOut, ceGroupInput>>
    /\ CeMainFrame

\* Lines 260-270: the launch loop of runParallel: the step is skipped, or
\* wg.Add(1) and a goroutine is started that calls runStep.
CeLaunchStep ==
    /\ cepc = "p260"
    /\ LET steps == CeNodes[ceNode].steps IN
         IF ceLaunch > Len(steps)
           THEN /\ cepc' = "p271"
                /\ UNCHANGED <<ceLaunch, ceSt, ceRs, ceWg>>
           ELSE LET i == steps[ceLaunch] IN
                /\ ceLaunch' = ceLaunch + 1
                /\ UNCHANGED cepc
                /\ IF CeSkipped(i)
                     THEN /\ ceSt' = [ceSt EXCEPT ![i] = "skipped"]
                          /\ UNCHANGED <<ceRs, ceWg>>
                     ELSE /\ ceSt' = [ceSt EXCEPT ![i] = "running"]
                          /\ ceRs' = [ceRs EXCEPT ![i] = CeRunStepEntered]
                          /\ ceWg' = ceWg + 1
    /\ UNCHANGED <<ceNode, ceResult, ceInput, ceCh, ceOut, ceReturned, ceGroupInput,
                   ceWrites>>
    /\ CeMainFrame

\* A goroutine that also puts its output into the input map it was given.
CeGoSendLeaks(i) ==
    /\ CeNodes[CeNodeOf(i)].parallel
    /\ ceSt[i] = "running"
    /\ ceRs[i].pc = "ret"
    /\ ceCh' = Append(ceCh, [name |-> ceNames[i], val |-> ceRs[i].val, err |-> ceRs[i].err])
    /\ ceWg' = ceWg - 1
    /\ ceSt' = [ceSt EXCEPT ![i] = IF ceRs[i].err # NoErr THEN "failed" ELSE "ok"]
    /\ ceRs' = [ceRs EXCEPT ![i].pc = "sent"]
    /\ ceInput' = [ceInput EXCEPT ![ceNames[i]] = ceRs[i].val]
    /\ UNCHANGED <<cepc, ceNode, ceLaunch, ceResult, ceOut, ceReturned,
                   ceGroupInput, ceWrites>>
    /\ CeMainFrame

\* Lines 266-268: the goroutine of step i sends its pair and calls wg.Done().
CeGoSend(i) ==
    /\ CeNodes[CeNodeOf(i)].parallel
    /\ ceSt[i] = "running"
    /\ ceRs[i].pc = "ret"
    /\ ceCh' = Append(ceCh, [name |-> ceNames[i], val |-> ceRs[i].val, err |-> ceRs[i].err])
    /\ ceWg' = ceWg - 1
    /\ ceSt' = [ceSt EXCEPT ![i] = IF ceRs[i].err # NoErr THEN "failed" ELSE "ok"]
    /\ ceRs' = [ceRs EXCEPT ![i].pc = "sent"]
    /\ UNCHANGED <<cepc, ceNode, ceLaunch, ceResult, ceInput, ceOut, ceReturned,
                   ceGroupInput, ceWrites>>
    /\ CeMainFrame

\* A wait that ends as soon as one result has been sent.
CeWaitOver1 == ceWg = 0 \/ Len(ceCh) >= 1

\* A wait that ends as soon as one step has reported an error.
CeWaitOverOnError == ceWg = 0 \/ \E k \in 1..Len(ceCh) : ceCh[k].err # NoErr

\* Line 271: wg.Wait() returns when the counter is zero.
CeWaitOver == ceWg = 0

\* Lines 271-272: wg.Wait(); close(ch)
CeWait ==
    /\ cepc = "p271"
    /\ CeWaitOver
    /\ cepc' = "p273"
    /\ UNCHANGED <<ceNode, ceLaunch, ceResult, ceInput, ceSt, ceRs, ceWg, ceCh, ceOut,
                   ceReturned, ceGroupInput, ceWrites>>
    /\ CeMainFrame

\* A collection that reports the error of the failed step declared first.
CeCollectDeclared(ch, k, out) ==
    IF \A n \in 1..Len(ch) : ch[n].err = NoErr
    THEN [err |-> NoErr,
          out |-> [m \in CeNameSet |->
                     IF \E n \in 1..Len(ch) : ch[n].name = m
                     THEN ch[CHOOSE n \in 1..Len(ch) :
                               ch[n].name = m /\ \A n2 \in 1..Len(ch) :
                                   ch[n2].name = m => n2 <= n].val
                     ELSE out[m]]]
    ELSE [err |-> ch[CHOOSE n \in 1..Len(ch) :
                        ch[n].err # NoErr /\ \A n2 \in 1..Len(ch) :
                            ch[n2].err # NoErr => ch[n].err.step <= ch[n2].err.step].err,
          out |-> CeEmptyMap]

\* Lines 273-278: the pairs are taken from ch in the order they were sent; the
\* first one with an error ends the loop; out collects the others.
RECURSIVE CeCollect(_, _, _)
CeCollect(ch, k, out) ==
    IF k > Len(ch) THEN [err |-> NoErr, out |-> out]
    ELSE IF ch[k].err # NoErr THEN [err |-> ch[k].err, out |-> CeEmptyMap]
    ELSE CeCollect(ch, k + 1, [out EXCEPT ![ch[k].name] = ch[k].val])

\* Lines 273-279 and 176-179: runParallel returns; its error is returned by
\* Execute as it is.
CeDrain ==
    /\ cepc = "p273"
    /\ LET r == CeCollect(ceCh, 1, CeEmptyMap) IN
         IF r.err # NoErr
           THEN /\ ceReturned' = CeErrReturn(r.err)
                /\ cepc' = "done"
                /\ UNCHANGED ceOut
           ELSE /\ ceOut' = r.out
                /\ cepc' = "x180"
                /\ UNCHANGED ceReturned
    /\ UNCHANGED <<ceNode, ceLaunch, ceResult, ceInput, ceSt, ceRs, ceWg, ceCh,
                   ceGroupInput, ceWrites>>
    /\ CeMainFrame

\* A merge that leaves currentInput as it was.
CeMergedInputKept(outputs) == ceInput

\* Line 182: currentInput[k] = v for every k, v of outputs.
CeMergedInput(outputs) ==
    [n \in CeNameSet |-> IF outputs[n] # NoOut THEN outputs[n] ELSE ceInput[n]]

\* Lines 180-183: the group's outputs are merged into result and currentInput.
CeMerge ==
    /\ cepc = "x180"
    /\ ceResult' = [n \in CeNameSet |-> IF ceOut[n] # NoOut THEN ceOut[n] ELSE ceResult[n]]
    /\ ceInput' = CeMergedInput(ceOut)
    /\ ceWrites' = [n \in CeNameSet |-> IF ceOut[n] # NoOut THEN ceWrites[n] + 1
                                                            ELSE ceWrites[n]]
    /\ ceNode' = ceNode + 1
    /\ cepc' = "x174"
    /\ UNCHANGED <<ceLaunch, ceSt, ceRs, ceWg, ceCh, ceOut, ceReturned, ceGroupInput>>
    /\ CeMainFrame

\* The owner of ctx cancels it.  runStep looks at ctx only in the select of
\* its backoff, so the step matters only for chains that have a backoff.
CeCancel ==
    /\ ceOpts.backoff
    /\ cepc # "done"
    /\ ~ceCtxDone
    /\ ceCtxDone' = TRUE
    /\ UNCHANGED <<ceCfg, cepc, ceNode, ceLaunch, ceResult, ceInput, ceSt, ceRs, ceWg,
                   ceCh, ceOut, ceReturned, ceSaw, ceGroupInput, ceRuns, ceFb, ceWrites>>

NextCE ==
    /\ \/ CeNextNode
       \/ CeSeqStep
       \/ CeSeqReturn
       \/ CeLaunchStep
       \/ CeWait
       \/ CeDrain
       \/ CeMerge
       \/ CeCancel
       \/ \E i \in CeSteps : CeGoSend(i)
       \/ \E i \in CeSteps : RsExecute(i)
       \/ \E i \in CeSteps : RsFallback(i)
       \/ \E i \in CeSteps : RsBackoff(i)
       \/ \E i \in CeSteps : RsRender(i)
    /\ UNCHANGED <<mwVars, exVars, caVars, memVars, metVars, chVars, opVars, rgVars, shVars, nsVars>>

SpecCE == InitCE /\ [][NextCE]_vars

----------------------------------------------------------------------------
\* Experiment.RecordSuccess (src/optimizer/optimizer.go), called concurrently
\* by the goroutines in OpProcs.  Everything RecordSuccess does while it holds
\* e.mu is one step; the callback runs after e.mu.Unlock() (line 132), so
\* other calls interleave with it.

\* The sample sizes the Experiment is built with (WithMinSampleSize).
OpMinSizes == {0, 2}

InitOp ==
    /\ MwUnused
    /\ NsUnused
    /\ ShUnused
    /\ NewMemoryRegistry
    /\ ExUnused
    /\ CaUnused
    /\ MemUnused
    /\ MetFresh
    /\ ChUnused
    /\ CeUnused
    /\ opN \in OpVariants
    /\ opMin \in OpMinSizes
    /\ opOnWinner \in BOOLEAN
    /\ OpFresh

\* winnerLocked, lines 159-170: the first variant with the highest success
\* rate among those with an outcome, 0 when there is none (bestIdx < 0).
\* Rates are compared as fractions.
OpBestIdx(succ, tot, n) ==
    IF \A i \in 1..n : tot[i] = 0 THEN 0
    ELSE CHOOSE b \in 1..n :
            /\ tot[b] > 0
            /\ \A i \in 1..n : tot[i] > 0 =>
                  /\ succ[i] * tot[b] <= succ[b] * tot[i]
                  /\ i < b => succ[i] * tot[b] < succ[b] * tot[i]

\* Line 181: se > 0 && (bestRate-p2)/se < 1.96, for the best variant b and
\* another variant i.  bestRate >= p2, so the test is (bestRate-p2)^2 <
\* 1.96^2 * se^2; both sides are multiplied by tot[b]^3 * tot[i]^3 * 10000.
OpNotSignificant(succ, tot, b, i) ==
    LET diff == succ[b] * tot[i] - succ[i] * tot[b]
        x == diff * diff * tot[b] * tot[i]
        y == succ[b] * (tot[b] - succ[b]) * tot[i] * tot[i] * tot[i]
             + succ[i] * (tot[i] - succ[i]) * tot[b] * tot[b] * tot[b]
    IN  y > 0 /\ 10000 * x < 38416 * y

\* winnerLocked (lines 158-186): (idx, ok).
winnerLocked(succ, tot, n) ==
    LET b == OpBestIdx(succ, tot, n)
    IN  IF b = 0 THEN [idx |-> 0, ok |-> FALSE]
        ELSE [idx |-> b,
              ok |-> \A i \in 1..n :
                        (i # b /\ tot[i] > 0) => ~OpNotSignificant(succ, tot, b, i)]

\* HasWinner (lines 143-156).
HasWinner ==
    /\ opN >= 2
    /\ \A i \in 1..opN : opTot[i] >= opMin
    /\ winnerLocked(opSucc, opTot, opN).ok

\* A version of line 127 that does not look at winnerFired.
OpFiresAgain(succ, tot) ==
    opOnWinner /\ winnerLocked(succ, tot, opN).ok

\* Lines 127-128: the callback is due.
OpFires(succ, tot) ==
    ~opFired /\ opOnWinner /\ winnerLocked(succ, tot, opN).ok

\* RecordSuccess(ctx, variantName, success), lines 119-132 or 119-137 with
\* the deferred Unlock: v is the index of the variant named, or a name no
\* variant bears when v > opN.
OpRecordSuccess(p, v, success) ==
    /\ oppc[p] = "idle"
    /\ opRecs < MaxOutcomes
    /\ opRecs' = opRecs + 1
    /\ IF v > opN
       THEN UNCHANGED <<opSucc, opTot, opFired, oppc, opFireAt>>
       ELSE LET tot == [opTot EXCEPT ![v] = @ + 1]
                succ == IF success THEN [opSucc EXCEPT ![v] = @ + 1] ELSE opSucc
            IN  /\ opTot' = tot
                /\ opSucc' = succ
                /\ IF OpFires(succ, tot)
                   THEN /\ opFired' = TRUE
                        /\ opFireAt' = opRecs'
                        /\ oppc' = [oppc EXCEPT ![p] = "o133"]
                   ELSE UNCHANGED <<opFired, opFireAt, oppc>>
    /\ UNCHANGED <<opN, opMin, opOnWinner, opCalls>>

\* Line 133: e.onWinner(name, prompt), outside the lock.
OpCallOnWinner(p) ==
    /\ oppc[p] = "o133"
    /\ opCalls' = opCalls + 1
    /\ oppc' = [oppc EXCEPT ![p] = "o134"]
    /\ UNCHANGED <<opN, opMin, opOnWinner, opSucc, opTot, opFired, opRecs, opFireAt>>

\* Lines 134 and 137: e.mu.Lock(), return, the deferred e.mu.Unlock().
OpRelock(p) ==
    /\ oppc[p] = "o134"
    /\ oppc' = [oppc EXCEPT ![p] = "idle"]
    /\ UNCHANGED <<opN, opMin, opOnWinner, opSucc, opTot, opFired, opRecs, opCalls,
                   opFireAt>>

NextOp ==
    /\ \/ \E p \in OpProcs, v \in 1..3, success \in BOOLEAN : OpRecordSuccess(p, v, success)
       \/ \E p \in OpProcs : OpCallOnWinner(p)
       \/ \E p \in OpProcs : OpRelock(p)
    /\ UNCHANGED <<mwVars, exVars, caVars, memVars, metVars, chVars, ceVars, rgVars, shVars, nsVars>>

SpecOp == InitOp /\ [][NextOp]_vars

----------------------------------------------------------------------------
\* MemoryRegistry (src/unnamed/part_011).  Every method holds m.mu from its
\* first line to its return, so a call is one step.  A prompt stored under
\* (id, version) is represented by version alone: GetProduction's result is
\* told apart by its Version only.  m.prompts[id] holding an empty map and
\* m.prompts[id] holding no map lead every method to the same return.

\* The stages given to Promote, the ids given to Store (a prompt's ID may
\* be empty), and the tags given to Tag.
RgStageArgs == {"dev", "production"}
RgStoreIds == RgIds \cup {""}
RgTagArgs == {"x"}

InitRg ==
    /\ MwUnused
    /\ NsUnused
    /\ ShUnused
    /\ ExUnused
    /\ CaUnused
    /\ MemUnused
    /\ MetFresh
    /\ ChUnused
    /\ CeUnused
    /\ OpUnused
    /\ NewMemoryRegistry

\* versions, ok := m.prompts[id]; _, ok := versions[version].
RgStored(id, version) == rgPrompts[id][version]

RgCall(op, id, version, stage, err, got) ==
    [op |-> op, id |-> id, version |-> version, stage |-> stage, err |-> err, got |-> got]

\* Store (lines 35-57) of a prompt with the given ID and Version.
RgStore(id, version) ==
    IF id = ""
    THEN /\ rgLast' = RgCall("Store", id, version, "", "invalid", "")
         /\ UNCHANGED <<rgPrompts, rgProduction, rgStages, rgTags>>
    ELSE /\ rgPrompts' = [rgPrompts EXCEPT ![id][version] = TRUE]
         /\ rgStages' = IF rgStages[id][version] = "none"
                        THEN [rgStages EXCEPT ![id][version] = "dev"]
                        ELSE rgStages
         /\ rgLast' = RgCall("Store", id, version, "", "nil", "")
         /\ UNCHANGED <<rgProduction, rgTags>>

\* Get (lines 60-72): the version of the prompt returned, or the error.
RgGet(id, version) ==
    /\ rgLast' = IF RgStored(id, version)
                 THEN RgCall("Get", id, version, "", "nil", version)
                 ELSE RgCall("Get", id, version, "", "ErrPromptNotFound", "")
    /\ UNCHANGED <<rgPrompts, rgProduction, rgStages, rgTags>>

\* GetProduction (lines 75-91): the version of the prompt returned, or
\* "ErrPromptNotFound".
GetProduction(id) ==
    IF rgProduction[id] = "none" THEN "ErrPromptNotFound"
    ELSE IF ~RgStored(id, rgProduction[id]) THEN "ErrPromptNotFound"
    ELSE rgProduction[id]

RgGetProduction(id) ==
    /\ rgLast' = IF GetProduction(id) = "ErrPromptNotFound"
                 THEN RgCall("GetProduction", id, "", "", "ErrPromptNotFound", "")
                 ELSE RgCall("GetProduction", id, "", "", "nil", GetProduction(id))
    /\ UNCHANGED <<rgPrompts, rgProduction, rgStages, rgTags>>

\* A Promote that records the stage and leaves m.production alone.
RgProductionKept(id, version, stage) == rgProduction

\* Lines 175-177: m.production after Promote.
RgProductionAfter(id, version, stage) ==
    IF stage = "production" THEN [rgProduction EXCEPT ![id] = version] ELSE rgProduction

\* Promote (lines 161-179).
RgPromote(id, version, stage) ==
    IF ~RgStored(id, version)
    THEN /\ rgLast' = RgCall("Promote", id, version, stage, "ErrPromptNotFound", "")
         /\ UNCHANGED <<rgPrompts, rgProduction, rgStages, rgTags>>
    ELSE /\ rgStages' = [rgStages EXCEPT ![id][version] = stage]
         /\ rgProduction' = RgProductionAfter(id, version, stage)
         /\ rgLast' = RgCall("Promote", id, version, stage, "nil", "")
         /\ UNCHANGED <<rgPrompts, rgTags>>

\* Delete (lines 182-201).
RgDelete(id, version) ==
    IF ~RgStored(id, version)
    THEN /\ rgLast' = RgCall("Delete", id, version, "", "ErrPromptNotFound", "")
         /\ UNCHANGED <<rgPrompts, rgProduction, rgStages, rgTags>>
    ELSE /\ rgPrompts' = [rgPrompts EXCEPT ![id][version] = FALSE]
         /\ rgProduction' = IF rgProduction[id] = version
                            THEN [rgProduction EXCEPT ![id] = "none"]
                            ELSE rgProduction
         /\ rgStages' = [rgStages EXCEPT ![id][version] = "none"]
         /\ rgTags' = [rgTags EXCEPT ![id][version] = "none"]
         /\ rgLast' = RgCall("Delete", id, version, "", "nil", "")

\* Tag (lines 204-216).
RgTag(id, version, tags) ==
    IF ~RgStored(id, version)
    THEN /\ rgLast' = RgCall("Tag", id, version, "", "ErrPromptNotFound", "")
         /\ UNCHANGED <<rgPrompts, rgProduction, rgStages, rgTags>>
    ELSE /\ rgTags' = [rgTags EXCEPT ![id][version] = tags]
         /\ rgLast' = RgCall("Tag", id, version, "", "nil", "")
         /\ UNCHANGED <<rgPrompts, rgProduction, rgStages>>

NextRg ==
    /\ \/ \E id \in RgStoreIds, v \in RgVersions : RgStore(id, v)
       \/ \E id \in RgIds, v \in RgVersions : RgGet(id, v)
       \/ \E id \in RgIds : RgGetProduction(id)
       \/ \E id \in RgIds, v \in RgVersions, st \in RgStageArgs : RgPromote(id, v, st)
       \/ \E id \in RgIds, v \in RgVersions : RgDelete(id, v)
       \/ \E id \in RgIds, v \in RgVersions, t \in RgTagArgs : RgTag(id, v, t)
    /\ UNCHANGED <<mwVars, exVars, caVars, memVars, metVars, chVars, ceVars, opVars, shVars, nsVars>>

SpecRg == InitRg /\ [][NextRg]_vars

----------------------------------------------------------------------------
\* One Middleware value (src/middleware/middleware.go, lines 15 and 32-77)
\* applied to the providers A and B, and Complete called on the wrappers.

ShProviders == {"A", "B"}

InitShare ==
    /\ MwUnused
    /\ NsUnused
    /\ ExUnused
    /\ CaUnused
    /\ MemUnused
    /\ MetFresh
    /\ ChUnused
    /\ CeUnused
    /\ OpUnused
    /\ NewMemoryRegistry
    /\ shKind \in {"Logging", "Metrics"}
    /\ ShFresh

\* Lines 36-38: Logging's closure allocates a loggingProvider each time it
\* is applied.
ShLoggingObject(n) == IF n = 1 THEN "l1" ELSE "l2"

\* Lines 72-76: Metrics's closure returns m, the one metricsProvider that
\* Metrics() allocated, each time it is applied.
ShMetricsObject(n) == "m"

\* The Middleware value is applied to provider p: the object's next field is
\* set (lines 37 and 74) and the object is returned.
ShApply(p) ==
    /\ Len(shWrappers) < 2
    /\ LET n == Len(shWrappers) + 1
           o == IF shKind = "Metrics" THEN ShMetricsObject(n) ELSE ShLoggingObject(n)
       IN  /\ shNext' = [shNext EXCEPT ![o] = p]
           /\ shWrappers' = Append(shWrappers, o)
           /\ shApplied' = Append(shApplied, p)
    /\ UNCHANGED <<shKind, shLog>>

\* Complete is called on the wrapper the w-th application returned; it
\* forwards to its next field (lines 43 and 91).
ShComplete(w) ==
    /\ w <= Len(shWrappers)
    /\ Len(shLog) < MaxShareCalls
    /\ shLog' = Append(shLog, [w |-> w, reached |-> shNext[shWrappers[w]]])
    /\ UNCHANGED <<shKind, shNext, shWrappers, shApplied>>

NextShare ==
    /\ \/ \E p \in ShProviders : ShApply(p)
       \/ \E w \in 1..2 : ShComplete(w)
    /\ UNCHANGED <<mwVars, exVars, caVars, memVars, metVars, chVars, ceVars, opVars,
                   rgVars, nsVars>>

SpecShare == InitShare /\ [][NextShare]_vars

----------------------------------------------------------------------------
\* One chain step run through an executor: Chain.runStep (src/unnamed/
\* part_000, lines 201-241) calling Executor.Execute (src/unnamed/part_007,
\* lines 88-139), which renders the task and calls Provider.Complete in its
\* own retry loop.  The step's timeout makes ctx done like a cancellation
\* does; e.Backoff only delays the executor's next attempt (time.Sleep).

InitNest ==
    /\ MwUnused
    /\ ExUnused
    /\ CaUnused
    /\ MemUnused
    /\ MetFresh
    /\ ChUnused
    /\ CeUnused
    /\ OpUnused
    /\ NewMemoryRegistry
    /\ ShUnused
    /\ nsM \in 0..MaxNestRetries
    /\ nsE \in 0..MaxNestRetries
    /\ nsFallback \in BOOLEAN
    /\ nsBackoff \in BOOLEAN
    /\ nsRenderOk \in [NsTasks -> BOOLEAN]
    /\ NsFresh

nsCfg == <<nsM, nsE, nsFallback, nsBackoff, nsRenderOk>>

\* A step that never retries.
NsStepLastAlways == TRUE

\* part_000 line 223: attempt == s.maxRetries
NsStepLast == nsAttempt = nsM

\* part_000 lines 219-240: c.exec.Execute has returned the error e to runStep.
NsExecuteFailed(e) ==
    /\ nsExAttempt' = 0
    /\ IF nsTask = "fallback"
         THEN /\ nsRet' = [kind |-> "err", err |-> nsLastErr, by |-> "fallback"]
              /\ nspc' = "done"
              /\ UNCHANGED <<nsTask, nsAttempt, nsLastErr>>
         ELSE /\ nsLastErr' = e
              /\ IF NsStepLast
                   THEN IF nsFallback
                          THEN /\ nsTask' = "fallback"
                               /\ nspc' = "r226"
                               /\ UNCHANGED <<nsAttempt, nsRet>>
                          ELSE /\ nsRet' = [kind |-> "err", err |-> e, by |-> "primary"]
                               /\ nspc' = "done"
                               /\ UNCHANGED <<nsTask, nsAttempt>>
                   ELSE IF nsBackoff
                          THEN /\ nspc' = "r235"
                               /\ UNCHANGED <<nsTask, nsAttempt, nsRet>>
                          ELSE /\ nsAttempt' = nsAttempt + 1
                               /\ nspc' = "r218"
                               /\ UNCHANGED <<nsTask, nsRet>>

\* part_000 lines 218 and 226, part_007 lines 89-95: Execute is called and
\* renders req.Prompt.  The template engine's Render fails when ctx is done
\* (src/template/engine.go, lines 79-83) or the input is invalid; Execute
\* returns a render failure at once, wrapped.
NsRender ==
    /\ nspc \in {"r218", "r226"}
    /\ nsRendered' = [nsRendered EXCEPT ![nsTask] = @ + 1]
    /\ IF nsRenderOk[nsTask] /\ ~nsCtxDone
         THEN /\ nspc' = "e121"
              /\ nsExAttempt' = 0
              /\ UNCHANGED <<nsTask, nsAttempt, nsLastErr, nsRet>>
         ELSE NsExecuteFailed(IF nsRenderOk[nsTask] THEN "ctx" ELSE "render")
    /\ UNCHANGED <<nsCfg, nsCtxDone, nsCompletes>>

\* part_007 lines 119-139: Provider.Complete is called; a response makes
\* Execute, and runStep (part_000 lines 219-221, 230), return it; after a
\* failure the executor tries again unless attempt == e.MaxRetries.
NsComplete ==
    /\ nspc = "e121"
    /\ nsCompletes' = [nsCompletes EXCEPT ![nsTask] = @ + 1]
    /\ \E ok \in BOOLEAN :
         IF ok
           THEN /\ nsRet' = [kind |-> "ok", err |-> "nil", by |-> nsTask]
                /\ nspc' = "done"
                /\ UNCHANGED <<nsTask, nsAttempt, nsExAttempt, nsLastErr>>
           ELSE IF nsExAttempt = nsE
             THEN NsExecuteFailed("service")
             ELSE /\ nsExAttempt' = nsExAttempt + 1
                  /\ UNCHANGED <<nspc, nsTask, nsAttempt, nsLastErr, nsRet>>
    /\ UNCHANGED <<nsCfg, nsCtxDone, nsRendered>>

\* part_000 lines 234-240: the select between ctx.Done() and the backoff
\* timer; with the context done either case may be taken.
NsBackoff ==
    /\ nspc = "r235"
    /\ \E c \in (IF nsCtxDone THEN {"done", "timer"} ELSE {"timer"}) :
         IF c = "done"
           THEN /\ nsRet' = [kind |-> "err", err |-> "ctx", by |-> "primary"]
                /\ nspc' = "done"
                /\ UNCHANGED nsAttempt
           ELSE /\ nsAttempt' = nsAttempt + 1
                /\ nspc' = "r218"
                /\ UNCHANGED nsRet
    /\ UNCHANGED <<nsCfg, nsTask, nsExAttempt, nsLastErr, nsCtxDone, nsRendered,
                   nsCompletes>>

\* The ctx given to runStep becomes done: its owner cancels it or a deadline
\* passes.
NsCancel ==
    /\ nspc # "done"
    /\ ~nsCtxDone
    /\ nsCtxDone' = TRUE
    /\ UNCHANGED <<nsCfg, nspc, nsTask, nsAttempt, nsExAttempt, nsLastErr, nsRendered,
                   nsCompletes, nsRet>>

NextNest ==
    /\ \/ NsRender
       \/ NsComplete
       \/ NsBackoff
       \/ NsCancel
    /\ UNCHANGED <<mwVars, exVars, caVars, memVars, metVars, chVars, ceVars, opVars,
                   rgVars, shVars>>

SpecNest == InitNest /\ [][NextNest]_vars

----------------------------------------------------------------------------
\* The circuit breaker's claims, checked under SpecCB.

\* A call has passed the open-state check of lines 276-284.
CBAdmitted(p) == pc[p] \notin {"idle", "l277", "l278", "l279"}

\* A step in which goroutine p enters c.next.Complete.
CBInvokes(p) == pc[p] = "l286" /\ pc'[p] = "inner"

\* C1, as stated: no goroutine enters the inner service's Complete while the
\* breaker's state is open and now < openUntil, whatever the interleaving.
CBNeverInvokesWhileOpen ==
    [][\A p \in CBProcs :
        CBInvokes(p) => ~(state = cbOpen /\ now < openUntil)]_vars

\* C1, amended: while the state is open and now < openUntil no call passes the
\* breaker's check (a call at the check is rejected or still waiting); only a
\* call that passed the check earlier can reach the inner service.
CBNoAdmissionWhileOpen ==
    [][(state = cbOpen /\ now < openUntil) =>
        \A p \in CBProcs : ~CBAdmitted(p) => ~CBAdmitted(p)']_vars

\* C1's case: a call is being rejected by the open breaker while another call,
\* admitted before the breaker opened, is inside the inner service.
CBRejectingWhileOpen ==
    \E p, q \in CBProcs :
        /\ pc[p] = "l279" /\ pc[q] = "inner"
        /\ state = cbOpen /\ now < openUntil

\* C2: a call whose state check found the breaker half-open (the probe's
\* outcome not yet recorded) is never passed to the inner service.
CBOnlyProbeWhileHalfOpen ==
    [][\A p \in CBProcs : CBInvokes(p) => seen[p] # cbHalfOpen]_vars

\* C3: with no call in progress the breaker is never closed with at least 10
\* requests counted and failures/requests >= threshold.
CBNeverClosedAtThreshold ==
    (\A p \in CBProcs : pc[p] = "idle") =>
        ~(/\ state = cbClosed
          /\ requests >= MinRequests
          /\ RateAtLeast(failures, requests, threshold))

\* C4: the step that closes the half-open breaker resets both counters to zero.
CBCloseResetsCounters ==
    [][(state = cbHalfOpen /\ state' = cbClosed) =>
        (requests' = 0 /\ failures' = 0)]_vars

\* Goroutine p was the half-open probe (its check found the state open past
\* openUntil) and its call to the inner service failed.
CBProbeFailed(p) ==
    /\ seen[p] = cbOpen /\ called[p]
    /\ pc[p] = "l300" \/ (pc[p] = "idle" /\ result[p] = "innerErr")

\* C5: once the probe has failed and re-opened the breaker, the breaker stays
\* open until its openUntil: no step takes the state away from open while
\* now < openUntil.
CBStaysOpenAfterProbeFails ==
    [][((\E p \in CBProcs : CBProbeFailed(p)) /\ state = cbOpen /\ now < openUntil)
        => state' = cbOpen]_vars

\* C6: every step of a call on its way to a fast-fail (finding the state open,
\* taking the lock, finding now < openUntil, unlocking and returning) leaves
\* requests, failures, state and openUntil as they were, and the call returns
\* DeadlineExceeded without having entered the inner service.
CBRejectChangesNothing ==
    [][\A p \in CBProcs :
        (pc'[p] # pc[p] /\ (pc'[p] \in {"l277", "l278", "l279"} \/ pc[p] = "l279"))
        => /\ UNCHANGED <<requests, failures, state, openUntil>>
           /\ pc[p] = "l279" =>
                (pc'[p] = "idle" /\ result'[p] = "DeadlineExceeded" /\ ~called'[p])]_vars

\* C6's case: a call has been rejected by the open breaker.
CBRejected ==
    \E p \in CBProcs :
        /\ pc[p] = "idle" /\ result[p] = "DeadlineExceeded"
        /\ requests >= MinRequests /\ failures > 0

----------------------------------------------------------------------------
\* The rate limiter's claims, checked under SpecRL.

RECURSIVE RLSum(_, _, _)
\* The permits given out at the instants from..to.
RLSum(f, from, to) == IF from > to THEN 0 ELSE f[from] + RLSum(f, from + 1, to)

RLMin(a, b) == IF a < b THEN a ELSE b

RLTotalAdmitted == RLSum(admittedAt, 0, MaxTimeRL)

\* Callers past the select: holding a permit or inside next.Complete.
RLPastSelect == {p \in Procs : pc[p] \in {"r238", "rinner"}}

\* C7: in every interval [s, s + window) at most limit calls are admitted (given
\* a permit, on which they go on to the inner service).
RLAtMostLimitPerWindow ==
    \A s \in 0..MaxTimeRL :
        RLSum(admittedAt, s, RLMin(s + window - 1, MaxTimeRL)) <= limit

\* C8: every permit given out was in the channel (those given out plus those
\* left are the limit initial ones plus those replenished, so no permit serves
\* two callers), the callers past the select each got one, and before the
\* first replenishment at most limit calls have got past the select.
RLPermitsNotShared ==
    /\ tokens \in 0..limit
    /\ tokens + RLTotalAdmitted = limit + added
    /\ Cardinality(RLPastSelect) <= RLTotalAdmitted
    /\ added = 0 => (RLTotalAdmitted <= limit /\ Cardinality(RLPastSelect) <= limit)

\* C8's case: limit + 1 calls started at once on a fresh limiter; limit of them
\* are in the inner service and the last one waits, before any replenishment.
RLOneCallerLeftWaiting ==
    /\ now = 0 /\ added = 0 /\ tokens = 0
    /\ limit + 1 = Cardinality(Procs)
    /\ Cardinality({p \in Procs : pc[p] = "rinner"}) = limit
    /\ \E p \in Procs : pc[p] = "r233" /\ ctx[p] = "live"

\* C9: a call that returns from the select through ctx.Done() returns the
\* context's error without having entered the inner service, and neither its
\* entry nor its return changes the number of permits.
RLCancelKeepsPermits ==
    [][\A p \in Procs :
        /\ (pc[p] = "idle" /\ pc'[p] = "r233") => tokens' = tokens
        /\ (pc[p] = "r233" /\ pc'[p] = "idle") =>
              (tokens' = tokens /\ result'[p] = "ctxErr" /\ ~called'[p])]_vars

\* C9's case: a call has returned the context's error while a permit was there.
RLCancelledWithPermitLeft ==
    \E p \in Procs :
        pc[p] = "idle" /\ result[p] = "ctxErr" /\ ~called[p] /\ tokens > 0

\* C10: a call whose context was already cancelled when Complete was called
\* never takes a permit and never enters the inner service.
RLCancelledNeverProceeds ==
    \A p \in Procs : ctx[p] = "precancelled" => pc[p] \notin {"r238", "rinner"}

----------------------------------------------------------------------------
\* The executor's claims, checked under SpecEx.

\* Every Complete call so far failed with a service error.
ExOnlyServiceErrs == \A i \in 1..Len(exlog) : exlog[i] \in ServiceErrs

\* Execute got past the prompt check and the render.
ExReachedLoop == exresult.kind \notin {"promptRequired", "render"}

\* C11: with MaxRetries = n >= 0 and a service that fails every call with a
\* non-cancellation error, Execute never makes more than n + 1 Complete calls,
\* and when it has returned it made exactly n + 1 and returned an error.
ExPermanentFailureCallsNPlusOne ==
    (exMaxRetries >= 0 /\ ExOnlyServiceErrs) =>
        /\ Len(exlog) <= exMaxRetries + 1
        /\ (expc = "done" /\ ExReachedLoop) =>
              /\ Len(exlog) = exMaxRetries + 1
              /\ exresult.kind = "exhausted"
              /\ exresult.value = FALSE

\* C11's case: two retries allowed, three failed calls, Execute returned.
ExThreeFailedCalls ==
    /\ expc = "done"
    /\ exMaxRetries = 2
    /\ Len(exlog) = 3
    /\ ExOnlyServiceErrs
    /\ exresult.kind = "exhausted"

\* C12: once a Complete call has failed with the context's error, that call is
\* the last one and Execute is returning: no further call, no backoff.
ExStopsOnContextError ==
    \A i \in 1..Len(exlog) :
        exlog[i] = CtxErr => (i = Len(exlog) /\ expc \in {"e139", "done"})

\* C13: when the context became done while a backoff delay was still running,
\* the backoff does not end in another attempt.
ExBackoffHonoursContext ==
    [][(expc = "e136" /\ exInterrupted) => expc' # "e121"]_vars

\* C14: when Execute returns a result, its attempt count is the 1-based index
\* of the Complete call that succeeded, which is the last call and at most
\* MaxRetries + 1.
ExAttemptsIsSucceedingCall ==
    exresult.kind = "ok" =>
        /\ expc = "done"
        /\ Len(exlog) >= 1
        /\ exlog[Len(exlog)] = "ok"
        /\ \A i \in 1..(Len(exlog) - 1) : exlog[i] # "ok"
        /\ exresult.attempts = Len(exlog)
        /\ exresult.attempts <= exMaxRetries + 1

\* C14's case: the third call succeeded.
ExSucceededOnThirdCall ==
    /\ exresult.kind = "ok"
    /\ Len(exlog) = 3
    /\ exresult.attempts = 3

\* C15: when the render failed, Execute has returned an error wrapping the
\* render error, rendered once, and never calls Complete.
ExRenderFailureStops ==
    exresult.kind = "render" =>
        /\ expc = "done"
        /\ exresult.value = FALSE
        /\ exresult.wraps = "renderErr"
        /\ exrenders = 1
        /\ exlog = <<>>

\* C15's case: the render failed although retries were allowed.
ExRenderFailed ==
    /\ exresult.kind = "render"
    /\ exMaxRetries = 2
    /\ expc = "done"

\* C16: when every attempt failed, Execute returns no result and an error that
\* wraps the error of the last attempt and reports the number of attempts made.
ExExhaustedWrapsLastError ==
    (exresult.kind = "exhausted" /\ Len(exlog) >= 1) =>
        /\ expc = "done"
        /\ exresult.value = FALSE
        /\ \A i \in 1..Len(exlog) : exlog[i] # "ok"
        /\ exresult.wraps = exlog[Len(exlog)]
        /\ exresult.attempts = Len(exlog)

\* C16's case: two attempts failed with different errors.
ExExhaustedTwoErrors ==
    /\ exresult.kind = "exhausted"
    /\ exlog = <<"errA", "errB">>

----------------------------------------------------------------------------
\* The cache decorator's claims, checked under SpecCache.

\* Calls i and j asked for the same (model, system, prompt), and call i got its
\* response from the inner service.
CaSamePair(i, j) ==
    /\ i < j
    /\ calog[i].req = calog[j].req
    /\ calog[i].invoked
    /\ calog[i].ok

\* Call j looked the key up within the TTL of call i's response.
CaWithinTTL(i, j) == calog[j].getAt <= calog[i].doneAt + caTTL

----------------------------------------------------------------------------
\* The InMemoryCache's claims, checked under SpecMem.

\* What Get returns for key k at time t, given the map.
MemGetResult(k, t) ==
    IF store[k] # NoEntry /\ t <= store[k].expires
      THEN [ok |-> TRUE, val |-> store[k].val]
      ELSE [ok |-> FALSE, val |-> NoEntry.val]

\* C18, first half: an entry Get returns was stored by a Set for that key and
\* is returned no later than that Set's time + ttl.
MemNeverReturnsExpired ==
    \A p \in MemProcs :
        mret[p].ok =>
            \E st \in msets :
                /\ st.key = mret[p].key
                /\ st.val = mret[p].val
                /\ mret[p].at <= st.at + st.ttl

\* C18, second half: a Set for one key changes neither the entry of another
\* key nor what a Get for another key returns.
MemSetLeavesOtherKeys ==
    [][\A k \in CaKeys :
          (mops' = mops + 1 /\ mlast' = [op |-> "set", key |-> k]) =>
              \A k2 \in CaKeys \ {k} :
                  /\ store'[k2] = store[k2]
                  /\ MemGetResult(k2, cnow)' = MemGetResult(k2, cnow)]_vars

\* C18: both halves.
MemGetSetContract == []MemNeverReturnsExpired /\ MemSetLeavesOtherKeys

\* C18's case: a Get missed an entry that had expired while a Get for the
\* other key, set in between, was served.
MemExpiredMissOtherKeyServed ==
    \E p, q \in MemProcs :
        /\ p # q
        /\ mret[p].key # mret[q].key
        /\ mret[p].ok /\ mret[p].at > 0
        /\ ~mret[q].ok
        /\ \E st \in msets : st.key = mret[q].key /\ st.at + st.ttl < mret[q].at

----------------------------------------------------------------------------
\* The metrics decorator's claims, checked under SpecMetrics.

\* lines 84-87: what the accessors return.
Requests == metRequests
Errors == metErrors
PromptTokens == metPromptTok
CompletionTokens == metCompleteTok

\* Every Complete call made has returned.
MtQuiescent == \A p \in MetProcs : mtpc[p] = "idle"

\* C19: once all concurrent calls have finished, Requests() is the number of
\* calls made, Errors() the number that failed, and the token totals are the
\* sums over the successful responses; at every moment Errors() <= Requests().
MtCountersExact ==
    /\ Errors <= Requests
    /\ MtQuiescent =>
          /\ Requests = mtCalls
          /\ Errors = mtErrs
          /\ PromptTokens = mtSumPrompt
          /\ CompletionTokens = mtSumComplete

\* C19's case: three calls by two goroutines, one failed, two answered with
\* different token counts, all finished.
MtThreeCallsCounted ==
    /\ MtQuiescent
    /\ Requests = 3
    /\ Errors = 1
    /\ PromptTokens = 3
    /\ CompletionTokens = 1

----------------------------------------------------------------------------
\* middleware.Chain's claims, checked under SpecChain.

----------------------------------------------------------------------------
\* Chain.Execute's claims, checked under SpecCE.

\* A step that will do nothing more: skipped, finished, or failed.
CeOver(i) == ceSt[i] \in {"skipped", "ok", "failed"}
\* The steps of parallel groups.
CeGroupSteps == { i \in CeSteps : CeNodes[CeNodeOf(i)].parallel }
\* The steps of the nodes after step i's node.
CeLaterSteps(i) == { j \in CeSteps : CeNodeOf(j) > CeNodeOf(i) }
\* How often step i's tasks were run.
CeRunCount(i) == ceRuns[i].primary + ceRuns[i].fallback

\* C21: nodes run in declaration order: a step that has started belongs to
\* the node Execute is at, and every step of every earlier node, the launched
\* steps of an earlier parallel group included, has completed or failed.
CeNodesInOrder ==
    \A j \in CeSteps :
        ceSt[j] # "pending" =>
            /\ CeNodeOf(j) <= ceNode
            /\ ceSt[j] = "running" => CeNodeOf(j) = ceNode
            /\ \A i \in CeSteps : CeNodeOf(i) < CeNodeOf(j) => CeOver(i)

\* C21's case: D runs after both steps of the group before it have finished.
CeLastNodeRunsAfterGroup ==
    /\ ceSt[4] = "running"
    /\ ceSt[2] = "ok"
    /\ ceSt[3] = "ok"
    /\ ceRuns[2].primary >= 2

\* C22: a step of a parallel group is always run with the input as it was when
\* the group was entered, and nothing a step of the group produced is in
\* result.outputs or in the input before every step of the group is over.
CeGroupSharesSnapshot ==
    \A i \in CeGroupSteps :
        /\ CeRunCount(i) >= 1 => ceSaw[i] = ceGroupInput
        /\ \A n \in CeNameSet :
              (ceResult[n].by = i \/ ceInput[n].by = i) =>
                  \A j \in CeGroupSteps : CeNodeOf(j) = CeNodeOf(i) => CeOver(j)

\* C22's case: B has finished with an output, C has run its task and is not
\* done, and A's output is in the input both were given.
CeSiblingFinishedFirst ==
    /\ ceSt[2] = "ok"
    /\ ceSt[3] = "running"
    /\ CeRunCount(3) >= 1
    /\ ceGroupInput["a"] # NoOut
    /\ ceInput["b"] = NoOut

\* C23: while a step launched in a parallel group has not finished, Execute
\* has neither returned nor left runParallel's launch loop and wait.
CeGroupAwaited ==
    \A i \in CeGroupSteps :
        ceSt[i] = "running" =>
            /\ cepc \in {"p260", "p271"}
            /\ ceNode = CeNodeOf(i)
            /\ ceReturned.kind = "none"

\* C23's case: one step of the group has failed, the other is still running,
\* and Execute is waiting.
CeWaitingAfterFailure ==
    /\ cepc = "p271"
    /\ \E i, j \in CeGroupSteps : ceSt[i] = "failed" /\ ceSt[j] = "running"

\* No other step of the chain bears step i's name.
CeNameUnique(i) == \A j \in CeSteps \ {i} : ceNames[j] # ceNames[i]

\* Step i has a condition, and it is false of the current result.
CeConditionFalse(i) == ceConds[i] # "nil" /\ ~CeCondition(ceConds[i], ceResult)

\* C24, the state part: a skipped step was never run or rendered, no entry of
\* result.outputs comes from it, its name (when no other step bears it) is
\* absent from the result, and no error of the chain is its error.
CeSkippedLeavesNothing ==
    \A i \in CeSteps :
        ceSt[i] = "skipped" =>
            /\ CeRunCount(i) = 0
            /\ ceRs[i] = CeIdle
            /\ \A n \in CeNameSet : ceResult[n].by # i /\ ceReturned.result[n].by # i
            /\ CeNameUnique(i) =>
                  (ceResult[ceNames[i]] = NoOut /\ ceReturned.result[ceNames[i]] = NoOut)
            /\ ceReturned.err.step # i

\* C24: a step, sequential or in a parallel group, whose condition is false
\* when Execute comes to it is skipped and never started, and a skipped step
\* leaves nothing behind.
CeFalseConditionSkips ==
    /\ []CeSkippedLeavesNothing
    /\ [][\A i \in CeSteps :
            (ceSt[i] = "pending" /\ ceSt'[i] # "pending") =>
                (ceSt'[i] = "skipped" <=> CeConditionFalse(i))]_vars

\* C24's case: a step of the group and the sequential step after it were
\* skipped and Execute returned its result without error.
CeSkippedBothKinds ==
    /\ ceSt[2] = "skipped"
    /\ ceSt[4] = "skipped"
    /\ ceSt[3] = "ok"
    /\ ceReturned.kind = "ok"
    /\ ceReturned.result["b"] = NoOut
    /\ ceReturned.result["d"] = NoOut

\* C25: when the primary task of a step failed all its attempts and its
\* fallback succeeded, runStep returns the fallback's output and no error, the
\* step does not fail, no error of the chain is this step's, and once Execute
\* is past the step's node the entry under its name is the fallback's output.
CeFallbackOutputIsStepOutput ==
    \A i \in CeSteps :
        ceFb[i] = "ok" =>
            /\ ceRuns[i].primary = ceOpts.maxRetries + 1
            /\ ceRs[i].pc \in {"ret", "sent"}
            /\ ceRs[i].err = NoErr
            /\ ceRs[i].val = [by |-> i, kind |-> "fallback"]
            /\ ceSt[i] # "failed"
            /\ ceReturned.err.step # i
            /\ (ceNode > CeNodeOf(i) /\ CeNameUnique(i)) =>
                  ceResult[ceNames[i]] = [by |-> i, kind |-> "fallback"]

\* C25's case: Execute returned a result in which A and B hold the outputs of
\* their fallbacks, each after two failed attempts of the primary task.
CeFallbackOutputsReturned ==
    /\ ceReturned.kind = "ok"
    /\ ceFb[1] = "ok" /\ ceFb[2] = "ok"
    /\ ceRuns[1].primary = 2 /\ ceRuns[2].primary = 2
    /\ ceReturned.result["a"] = [by |-> 1, kind |-> "fallback"]
    /\ ceReturned.result["b"] = [by |-> 2, kind |-> "fallback"]

\* C26: when the primary task of a step failed all its attempts and its
\* fallback failed too, the error of the step wraps the error of the primary
\* task's last attempt, in runStep's return and in what Execute returns.
CeBothFailedWrapsPrimary ==
    \A i \in CeSteps :
        ceFb[i] = "failed" =>
            /\ ceRuns[i].primary = ceOpts.maxRetries + 1
            /\ ceRs[i].pc \in {"ret", "sent"}
            /\ ceRs[i].err.step = i
            /\ ceRs[i].err.task = "primary"
            /\ ceRs[i].err.attempt = ceOpts.maxRetries
            /\ ceReturned.err.step = i =>
                  (ceReturned.err.task = "primary"
                   /\ ceReturned.err.attempt = ceOpts.maxRetries)

\* C26's case: Execute returned the error of a step of the group whose two
\* primary attempts and fallback all failed.
CeBothFailedReturned ==
    /\ ceReturned.kind = "err"
    /\ ceReturned.err.step = 3
    /\ ceFb[3] = "failed"
    /\ ceRuns[3].primary = 2

\* C27: once a step has failed, no step of a later node is ever started,
\* rendered or run, and Execute, when it returns, returns an error.
CeFailureStopsChain ==
    \A i \in CeSteps :
        ceSt[i] = "failed" =>
            /\ \A j \in CeLaterSteps(i) :
                  ceSt[j] = "pending" /\ CeRunCount(j) = 0 /\ ceRs[j] = CeIdle
            /\ ceReturned.kind # "ok"
            /\ cepc = "done" => ceReturned.kind = "err"

\* C27's case: a step of the group failed, its sibling finished, and Execute
\* returned the error without starting D.
CeGroupFailureReturned ==
    /\ cepc = "done"
    /\ ceReturned.kind = "err"
    /\ ceSt[2] = "failed"
    /\ ceSt[3] = "ok"
    /\ ceSt[4] = "pending"

\* C28: an error Execute returns for a failed step carries that step's name.
CeErrorNamesStep ==
    ceReturned.kind = "err" =>
        ceReturned.err.annot = ceNames[ceReturned.err.step]

\* C29: when Execute succeeds on A, Parallel(B, C), D, the result holds
\* exactly the names of the steps that were not skipped, each with the output
\* of its own step; currentInput holds the same entries, and every step of a
\* later node that ran was given the outputs of all earlier nodes.
CeResultHoldsOwnOutputs ==
    (ceReturned.kind = "ok" /\ ceNames = <<"a", "b", "c", "d">>) =>
        /\ \A i \in CeSteps :
              /\ ceSt[i] \in {"ok", "skipped"}
              /\ ceSt[i] = "ok" =>
                    /\ ceRs[i].val.by = i
                    /\ ceReturned.result[ceNames[i]] = ceRs[i].val
                    /\ ceInput[ceNames[i]] = ceRs[i].val
                    /\ \A j \in CeLaterSteps(i) :
                          CeRunCount(j) >= 1 => ceSaw[j][ceNames[i]] = ceRs[i].val
              /\ ceSt[i] = "skipped" =>
                    /\ ceReturned.result[ceNames[i]] = NoOut
                    /\ \A j \in CeSteps : ceSaw[j][ceNames[i]] = NoOut

\* C29's case: all four steps ran and Execute returned their outputs.
CeAllFourReturned ==
    /\ ceReturned.kind = "ok"
    /\ ceNames = <<"a", "b", "c", "d">>
    /\ \A i \in CeSteps : ceSt[i] = "ok"
    /\ ceSaw[4]["b"].by = 2 /\ ceSaw[4]["c"].by = 3 /\ ceSaw[4]["a"].by = 1

\* C30: no entry of result.outputs is written twice during one Execute call
\* (a second write would replace the value written first).
CeEntryWrittenOnce == \A n \in CeNameSet : ceWrites[n] <= 1

----------------------------------------------------------------------------
\* The Experiment's claims, checked under SpecOp.

\* C31: over any interleaving of concurrent RecordSuccess calls, e.onWinner
\* is invoked at most once.
OpOnWinnerAtMostOnce == opCalls <= 1

\* The callback was invoked, and while it ran another RecordSuccess call
\* recorded an outcome that left a winner.
OpRecordedDuringCallback ==
    /\ opCalls = 1
    /\ \E p \in OpProcs : oppc[p] = "o134"
    /\ opRecs > opFireAt
    /\ winnerLocked(opSucc, opTot, opN).ok

\* C32: e.onWinner is invoked only in a state where HasWinner() is true.
OpOnWinnerOnlyWithWinner == [][opCalls' # opCalls => HasWinner]_vars

----------------------------------------------------------------------------
\* The MemoryRegistry's claims, checked under SpecRg.

\* The call just made was a Promote or a Get that returned ErrPromptNotFound.
RgJustNotFound ==
    rgLast'.op \in {"Promote", "Get"} /\ rgLast'.err = "ErrPromptNotFound"

\* The call just made promoted a version of id other than v to production,
\* or deleted v.
RgJustReplaced(id, v) ==
    /\ rgLast'.id = id
    /\ rgLast'.err = "nil"
    /\ \/ rgLast'.op = "Promote" /\ rgLast'.stage = "production" /\ rgLast'.version # v
       \/ rgLast'.op = "Delete" /\ rgLast'.version = v

RgOneProductionVersion ==
    \A id \in RgIds :
        /\ GetProduction(id) # "ErrPromptNotFound" =>
              /\ rgPrompts[id][GetProduction(id)]
              /\ rgStages[id][GetProduction(id)] = "production"
        /\ Cardinality({v \in RgVersions : rgStages[id][v] = "production"}) <= 1

----------------------------------------------------------------------------
\* Further claims on Chain.Execute, checked under SpecCE.

\* C36: when Execute returns an error the ChainResult it returns is nil: no
\* output is visible through it, whatever result.outputs held.
CeErrorReturnsNoResult ==
    ceReturned.kind = "err" => \A n \in CeNameSet : ceReturned.result[n] = NoOut

\* C36's case: Execute returned the error of a step of the group after A and
\* the other step of the group had succeeded.
CeOutputsDiscarded ==
    /\ ceReturned.kind = "err"
    /\ ceResult["a"] # NoOut
    /\ \E i, j \in CeGroupSteps : ceSt[i] = "failed" /\ ceSt[j] = "ok"

\* Step i's runStep ran to its own end: it succeeded, or the caller's context
\* ended its backoff, or it used every attempt and the fallback it has.
CeRanItsCourse(i) ==
    \/ ceRs[i].err = NoErr /\ ceRs[i].val # NoOut
    \/ ceRs[i].err.msg = "ctx" /\ ceCtxDone
    \/ /\ ceOpts.exec /\ ceOpts.maxRetries >= 0
       /\ ceRuns[i].primary = ceOpts.maxRetries + 1
       /\ ceRuns[i].fallback = (IF ceOpts.fallback THEN 1 ELSE 0)
    \/ /\ ~(ceOpts.exec /\ ceOpts.maxRetries >= 0)
       /\ ceRuns[i].primary = 1

\* C37: when Execute returns the error of a parallel group, every launched
\* step of the group has run to its own end, with all its attempts and its
\* fallback, whichever step failed first.
CeSiblingsNotCancelled ==
    (cepc = "done" /\ ceReturned.kind = "err") =>
        \A i \in CeGroupSteps :
            ceSt[i] \in {"ok", "failed"} => (ceRs[i].pc = "sent" /\ CeRanItsCourse(i))

\* C37's case: B delivered its failure first; C, which delivered after it,
\* used both attempts and its fallback; Execute returned B's error.
CeSiblingRetriedAfterFailure ==
    /\ cepc = "done"
    /\ ceReturned.kind = "err"
    /\ ceReturned.err.step = 2
    /\ ceSt[3] = "failed"
    /\ ceRuns[3].primary = 2
    /\ ceRuns[3].fallback = 1
    /\ Len(ceCh) = 2 /\ ceCh[1].err.step = 2

\* C38: the error Execute returns for a parallel group is the error of the
\* first failed step in the order the steps delivered their results.
CeFirstDeliveredErrorWins ==
    (cepc = "done" /\ ceReturned.kind = "err" /\ CeNodes[ceNode].parallel) =>
        \E k \in 1..Len(ceCh) :
            /\ ceCh[k].err = ceReturned.err
            /\ \A n \in 1..(k - 1) : ceCh[n].err = NoErr

\* C38's case: B and C both failed, C delivered first, and Execute returned
\* C's error although B is declared before C.
CeLaterDeclaredErrorReturned ==
    /\ cepc = "done"
    /\ ceSt[2] = "failed"
    /\ ceSt[3] = "failed"
    /\ ceReturned.err.step = 3

----------------------------------------------------------------------------
\* The claim on applying one Middleware value twice, checked under SpecShare.

\* C39: every Complete call made on the wrapper an application returned is
\* forwarded to the provider that application was given.
ShWrappersIndependent ==
    \A k \in 1..Len(shLog) : shLog[k].reached = shApplied[shLog[k].w]

----------------------------------------------------------------------------
\* The claims on a step run through an executor, checked under SpecNest.

\* C34: a step whose primary task fails to render renders it once and fails.
NsRenderFailureNotRetried ==
    ~nsRenderOk["primary"] =>
        /\ nsRendered["primary"] <= 1
        /\ nsRet.kind # "ok"

\* The Complete calls a step makes when every attempt is used.
NsNestedCalls ==
    /\ nsCompletes["primary"] = (nsM + 1) * (nsE + 1)
    /\ nsCompletes["fallback"] = (IF nsFallback THEN nsE + 1 ELSE 0)

\* C35, as stated: a step whose tasks render and whose every Complete call
\* failed has made (m+1)*(e+1) calls for the primary task, and e+1 more for
\* the fallback when there is one.
NsCallsNestAlways ==
    (nsRet.kind = "err" /\ \A t \in NsTasks : nsRenderOk[t]) => NsNestedCalls

\* C35, amended: the same, for a step whose context was not done before it
\* returned.
NsCallsNest ==
    (nsRet.kind = "err" /\ ~nsCtxDone /\ \A t \in NsTasks : nsRenderOk[t])
        => NsNestedCalls

\* C35's case: a step with retries and a fallback, run through an executor
\* with retries, has failed with its context live.
NsNestedExhausted ==
    /\ nsRet.kind = "err"
    /\ ~nsCtxDone
    /\ nsM >= 1 /\ nsE >= 1 /\ nsFallback /\ nsBackoff
    /\ \A t \in NsTasks : nsRenderOk[t]
    /\ nsCompletes["primary"] >= 4
    /\ nsCompletes["fallback"] >= 2

====
